---- MODULE Spec2Model ----
(***************************************************************************)
(* Model of github.com/tslnc04/loki-logger, package pkg/client/retry:      *)
(* the ExponentialBackoff (Next, Clone), the retrying Client               *)
(* (NewRetryClient, WithBackoff, Push, PushWithHandle) and the goroutine   *)
(* that PushWithHandle starts; and of LokiClient.Push (pkg/client), the    *)
(* JoinedHandler (pkg/slog) and the LokiSink (pkg/logr), each under a      *)
(* specification of its own.                                               *)
(*                                                                         *)
(* Representation.  A time.Duration is an integer counted in nanoseconds,   *)
(* as in Go; the model's integers reach 2^31 - 1, a little over two        *)
(* seconds, and the bounds keep every delay below that.  A float64 Factor  *)
(* is a fixed-point number counted in units of 1/FactorDen (2.0 is         *)
(* 2 * FactorDen); the factors used are exact in binary (multiples of      *)
(* 0.5), so that the float64 product is the exact product.                 *)
(* Backoff objects live in a heap, `backoffs`, and are named by their      *)
(* index, so that sharing one object is different from holding a copy.     *)
(* An error value is "nil", "status" (an error whose chain holds a         *)
(* *client.PushStatusError) or "other" (any other non-nil error).          *)
(***************************************************************************)
EXTENDS Integers, Sequences, FiniteSets, TLC

\* ------------------------------------------------------------------ bounds
\* Number of PushWithHandle/Push calls made in one behaviour of Spec and LiveSpec.
MaxDeliveries == 1
\* Number of PushWithHandle/Push calls made in one behaviour of ConcSpec.
MaxConcurrent == 2
\* Number of times the inner client answers one delivery with a status error.
MaxFail == 3
\* Number of LokiClient.Push calls made in one behaviour of LokiPushSpec.
MaxPushes == 2
\* Number of handlers of the JoinedHandler in one behaviour of JoinSpec.
MaxHandlers == 3
\* Number of Handle calls made in one behaviour of JoinSpec.
MaxHandleCalls == 2
\* Number of log calls made on the logger in one behaviour of SinkSpec.
MaxLogCalls == 2
\* Number of requests a fake server receives in one behaviour.
MaxRequests == 3

\* Largest sendError count a fake server is created with.
MaxSendError == 2

\* Number of Write calls on a LokiWriter in one behaviour.
MaxWrites == 1

\* Largest length of a message given to Write.
MaxMessageLen == 3

\* Number of WithAttrs and WithGroup calls on a JoinedHandler in one behaviour.
MaxDerived == 2

\* Number of Is calls made in one behaviour of IsSpec.
MaxIsCalls == 2
\* Number of backoff objects the caller holds in one behaviour of BackoffSpec.
MaxHeld == 2
\* Number of clients in one behaviour of BackoffSpec.
MaxClients == 2
\* Number of calls the caller makes in one behaviour of BackoffSpec.
MaxCalls == 6

\* --------------------------------------------------------------- constants
\* Denominator of the fixed-point representation of a float64 factor.
FactorDen == 10
\* time.Millisecond, in nanoseconds.
Millisecond == 1000000
\* retry.go:26  DefaultInitialDelay = 100 * time.Millisecond
DefaultInitialDelay == 100 * Millisecond
\* retry.go:29  DefaultFactor = 2.0
DefaultFactor == 2 * FactorDen

VARIABLES
    backoffs,    \* heap of ExponentialBackoff objects: Seq of [Delay, Factor, Max]
    clients,     \* retry.Client objects: Seq of [inner, backoff |-> index into backoffs]
    deliveries,  \* one record per PushWithHandle/Push call, in call order
    held         \* the caller's backoff variables, in the order they were
                 \* assigned: Seq of [ref |-> index into backoffs, origin,
                 \* parent, at, out], with what the backoff was when assigned,
                 \* what it was cloned from and after how many of that one's
                 \* Next calls, and what the Next calls through it returned

VARIABLES
    lokiPush,    \* LokiClient.Push: the call in progress and what the calls returned
    joined,      \* a JoinedHandler, its Handle call in progress and its handlers' calls
    sink         \* a logr.Logger on a LokiSink, the entries it pushed, a panic if any

VARIABLES
    isCalls,     \* the calls of PushStatusError.Is and errors.Is made, with their results
    server,      \* a fake.Server: its fields, the requests it is serving or has served
    writer,      \* a log.LokiWriter, the entries it pushed and what its Write calls returned
    derived      \* the JoinedHandlers returned by WithAttrs and WithGroup

more == <<isCalls, server, writer, derived>>

\* The state of the packages other than retry.
parts == <<lokiPush, joined, sink, more>>

vars == <<backoffs, clients, deliveries, held, lokiPush, joined, sink, isCalls, server, writer, derived>>

\* ------------------------------------------------------------- ExponentialBackoff
\* type ExponentialBackoff struct { Delay; Factor; Max }
ExponentialBackoff(d, f, m) == [Delay |-> d, Factor |-> f, Max |-> m]

\* |delay| * factor / FactorDen rounded down, for factor >= 0, computed without
\* forming delay * factor.
MulAbs(delay, factor) ==
    (delay \div FactorDen) * factor + ((delay % FactorDen) * factor) \div FactorDen

\* time.Duration(float64(delay) * factor): the product, truncated toward zero.
MulDuration(delay, factor) ==
    IF (delay >= 0) = (factor >= 0)
    THEN MulAbs(IF delay >= 0 THEN delay ELSE -delay, IF factor >= 0 THEN factor ELSE -factor)
    ELSE -MulAbs(IF delay >= 0 THEN delay ELSE -delay, IF factor >= 0 THEN factor ELSE -factor)

\* NextStops without the test that a ceiling is set.
NextStopsUnsetMax(b) == b.Delay > b.Max

\* A ceiling test that already stops at a delay equal to Max.
NextStopsAtMax(b) == b.Max # 0 /\ b.Delay >= b.Max

\* Next, first branch: the ceiling is set and the current delay is above it.
NextStops(b) == b.Max # 0 /\ b.Delay > b.Max

\* A Next that starts over once the ceiling is passed: it sets Delay back to zero.
NextStateResets(b) ==
    IF NextStops(b) THEN ExponentialBackoff(0, b.Factor, b.Max)
    ELSE LET d == IF b.Delay = 0 THEN DefaultInitialDelay ELSE b.Delay
             f == IF b.Factor = 0 THEN DefaultFactor ELSE b.Factor
         IN  ExponentialBackoff(MulDuration(d, f), f, b.Max)

\* A Next that uses the default delay for the wait without storing it in Delay.
NextStateKeepsZero(b) ==
    IF NextStops(b) THEN b
    ELSE LET f == IF b.Factor = 0 THEN DefaultFactor ELSE b.Factor
         IN  ExponentialBackoff(MulDuration(b.Delay, f), f, b.Max)

\* Next, the object after the call (unchanged when Next returns the closed channel).
NextState(b) ==
    IF NextStops(b) THEN b
    ELSE LET d == IF b.Delay = 0 THEN DefaultInitialDelay ELSE b.Delay
             f == IF b.Factor = 0 THEN DefaultFactor ELSE b.Factor
         IN  ExponentialBackoff(MulDuration(d, f), f, b.Max)

\* A Next that multiplies first and waits the multiplied delay.
NextDelayAfterMul(b) ==
    MulDuration(IF b.Delay = 0 THEN DefaultInitialDelay ELSE b.Delay,
                IF b.Factor = 0 THEN DefaultFactor ELSE b.Factor)

\* Next, the delay handed to time.After (meaningful when Next does not stop).
NextDelay(b) == IF b.Delay = 0 THEN DefaultInitialDelay ELSE b.Delay

\* Next, the channel it returns: a closed channel, or a timer that has not fired.
NextChan(b) == IF NextStops(b) THEN "closed" ELSE "pending"

\* Clone copying Factor and Max but not the current Delay.
CloneResets(heap, ref) ==
    [heap |-> Append(heap, ExponentialBackoff(0, heap[ref].Factor, heap[ref].Max)),
     ref  |-> Len(heap) + 1]

\* Clone returning its receiver instead of a copy.
CloneShared(heap, ref) == [heap |-> heap, ref |-> ref]

\* Clone: allocates a new object with the same three fields.  Returns the heap
\* after the call and the reference of the object Clone returns.
Clone(heap, ref) ==
    [ heap |-> Append(heap, ExponentialBackoff(heap[ref].Delay, heap[ref].Factor, heap[ref].Max)),
      ref  |-> Len(heap) + 1 ]

\* The backoff of the client under study: the zero-valued one of NewRetryClient,
\* or one handed to WithBackoff (500ms doubling up to 1s; 2s, already above 1s).
ClientBackoffs ==
    { ExponentialBackoff(0, 0, 0),
      ExponentialBackoff(500 * Millisecond, 2 * FactorDen, 1000 * Millisecond),
      ExponentialBackoff(2000 * Millisecond, 2 * FactorDen, 1000 * Millisecond) }

\* ------------------------------------------------------------------ errors
\* A loop condition that retries on every error.
IsAnyError(err) == err # "nil"

\* errors.Is(err, &client.PushStatusError{})
IsPushStatusError(err) == err = "status"

\* What inner.Push may return.
PushResults == {"nil", "status", "other"}

\* --------------------------------------------------------------- PushWithHandle
\* make(chan error, 1)
ErrChanCap == 1

NewErrChan == [buf |-> <<>>, closed |-> FALSE]

\* Where the history of a delivery stops counting.
MaxCount == MaxFail + 3

Tick(n) == IF n < MaxCount THEN n + 1 ELSE n

\* The state of a delivery right after PushWithHandle returned: the channel is
\* made, the backoff cloned and the goroutine started but not yet running.
NewDelivery(c, ref, viaPush, cancelled) ==
    [ client   |-> c,          \* the retrying client the call was made on
      viaPush  |-> viaPush,    \* TRUE: the call was Push, which drops the channel
      ret      |-> IF viaPush THEN "pending" ELSE "errChan",  \* what the caller got
      pc       |-> "go",       \* where the goroutine is
      err      |-> "nil",      \* the goroutine's err variable
      backoff  |-> ref,        \* clonedBackoff
      timer    |-> "none",     \* the channel the pending select got from Next
      ctxDone  |-> cancelled,  \* ctx.Done() is closed
      errChan  |-> NewErrChan,
      \* history, read by no action of the goroutine; the counts and waits stand
      \* still at MaxCount:
      attempts |-> 0,          \* inner.Push calls started
      fails    |-> 0,          \* inner.Push calls that returned a status error
      nexts    |-> 0,          \* clonedBackoff.Next calls
      waits    |-> <<>>,       \* the delays handed to time.After, in order
      cancelAt |-> IF cancelled THEN "call" ELSE "none",  \* where ctx was cancelled
      sent     |-> <<>>,       \* every value sent on errChan, in order
      closes   |-> 0,          \* close(errChan) calls
      sentAfterClose |-> FALSE,
      got      |-> <<>>,       \* what the caller received from errChan
      sawClose |-> FALSE ]     \* the caller's receive reported the channel closed

\* ------------------------------------------------------------ LokiClient.Push
\* Error values of LokiClient.Push: nil, *PushStatusError, the errors.Join of a
\* *PushStatusError with the error of reading the body, and the error of one
\* of the stages before a response.
NilError == [kind |-> "nil"]
PushStatusError(code, status, body) ==
    [kind |-> "PushStatusError", StatusCode |-> code, Status |-> status, Body |-> body]
JoinError(e1, e2) == [kind |-> "join", errs |-> << e1, e2 >>]
StageError(stage) == [kind |-> "other", stage |-> stage]

\* errors.Is(err, &PushStatusError{}): the error, or an error joined in it, is
\* a *PushStatusError.
MatchesPushStatusError(e) ==
    \/ e.kind = "PushStatusError"
    \/ e.kind = "join" /\ \E i \in 1 .. Len(e.errs) : e.errs[i].kind = "PushStatusError"

\* The status codes and bodies a server answers with.
StatusCodes == {199, 200, 204, 299, 300, 404, 500}
Bodies == {"", "entry out of order"}
\* resp.Status, the status line text of a code.
StatusOf(code) == << code, "text" >>
\* No response received; a nil Body in a PushStatusError.
NoResponse == [StatusCode |-> 0, Status |-> << >>, Body |-> "none"]
NoBody == "nil"

\* No Push call in progress, none made.
IdlePush == [pc |-> "idle", resp |-> NoResponse, open |-> FALSE, returned |-> << >>]

\* ------------------------------------------------------------ JoinedHandler
\* NewJoinedHandler(hs...): the handlers as given, concurrency off, no Handle
\* call made.  A handler is [id, ret]: its number in the order the handlers
\* were given to the JoinedHandler, and what its Handle returns, "nil" or "err".
\* The error of handler id is the number id; 0 is nil and -1 no result yet.
NewJoinedHandler(hs) ==
    [handlers |-> hs, concurrent |-> FALSE,
     pc |-> "idle",      \* where Handle is
     i |-> 0,            \* the index of the sequential loop
     g |-> << >>,        \* the goroutines of handleConcurrent: Seq of [pc, n]
     wg |-> 0,           \* the WaitGroup counter
     errChan |-> [cap |-> 0, buf |-> << >>, closed |-> FALSE],
     \* history:
     added |-> Len(hs),  \* handlers given so far
     ranged |-> << >>,   \* the handlers the last Handle call ranged over
     viaLoop |-> FALSE,  \* whether the last Handle call took the sequential loop
     invoked |-> << >>,  \* ids of the handlers the sequential loop invoked, in order
     result |-> -1,      \* what the last Handle call returned
     calls |-> 0]        \* Handle calls returned

\* ----------------------------------------------------------------- LokiSink
\* logr.New(NewLokiSink(client, level)): no labels, nothing pushed.
\* A map[string]string is [nil, kv]: whether it is the nil map, and its pairs.
UnsetMap == [nil |-> TRUE, kv |-> {}]
MakeMap == [nil |-> FALSE, kv |-> {}]

\* m[key] = value on a map that is not nil
MapSet(m, key, value) ==
    [m EXCEPT !.kv = {p \in @ : p[1] # key} \cup {<<key, value>>}]

MapHas(m, key) == \E p \in m.kv : p[1] = key

NewLokiSink(level) ==
    [level |-> level, labels |-> MakeMap,
     pushed |-> << >>,      \* the entries the client was given
     panicked |-> FALSE,    \* a call panicked: the goroutine is gone
     calls |-> << >>]       \* history: the log calls made and what each pushed

\* The other packages at rest, in the specifications of the retrying client.
\* fake.NewServer(sendError): no streams, the lock free (server.go:31-37), and
\* no request yet.
NewServer(sendError) ==
    [sendError |-> sendError, streams |-> << >>,
     n |-> sendError,       \* history: the count NewServer was given
     lock |-> 0,            \* the request holding server.lock, 0 if none
     requests |-> << >>,    \* the requests, each with where its ServeHTTP call is
     order |-> << >>]       \* history: the requests in the order they took the lock

\* part_004:157-186  labelsToString: the pairs in the order of their keys, as
\* key="value" separated by ", " between braces.  A map is written as the
\* sequence of its pairs in key order.
RECURSIVE LabelPairs(_)
LabelPairs(labels) ==
    IF labels = << >> THEN << >>
    ELSE LET kv == labels[Len(labels)]
         IN  LabelPairs(SubSeq(labels, 1, Len(labels) - 1))
               \o (IF Len(labels) > 1 THEN << ", " >> ELSE << >>)
               \o << kv[1], "=", "\"", kv[2], "\"" >>

labelsToString(labels) == << "{" >> \o LabelPairs(labels) \o << "}" >>

\* log.NewLokiWriter(client, labels) (log.go:40-50), the client keeping what it
\* is given.
NewLokiWriter(labels) ==
    [labels |-> labels, preformattedLabels |-> labelsToString(labels),
     pushed |-> << >>,      \* the entries the client was given
     calls |-> << >>]       \* history: the Write calls and what they returned

MoreIdle ==
    /\ isCalls = << >>
    /\ server = NewServer(0)
    /\ writer = NewLokiWriter(<< >>)
    /\ derived = << >>

PartsIdle ==
    /\ lokiPush = IdlePush
    /\ joined = NewJoinedHandler(<< >>)
    /\ sink = NewLokiSink(0)
    /\ MoreIdle

\* The retrying client's state in the specifications of the other packages.
RetryIdle ==
    /\ backoffs = << >>
    /\ clients = << >>
    /\ deliveries = << >>
    /\ held = << >>

\* NewRetryClient(inner), or NewRetryClient(inner).WithBackoff(b): one client
\* whose backoff object holds one of the ClientBackoffs.
Init ==
    /\ \E b \in ClientBackoffs : backoffs = << b >>
    /\ clients = << [inner |-> "inner", backoff |-> 1] >>
    /\ deliveries = << >>
    /\ held = << >>
    /\ PartsIdle

Ids == 1 .. Len(deliveries)

Terminated(D) == D.pc \in {"done", "stopped", "cancelled"}

\* A PushWithHandle that uses the client's backoff itself: no Clone.
StartDeliveryOnTemplate(c, viaPush, cancelled) ==
    /\ deliveries' = Append(deliveries,
                            NewDelivery(c, clients[c].backoff, viaPush, cancelled))
    /\ UNCHANGED <<backoffs, clients, held, parts>>

\* PushWithHandle(ctx, entry) up to its return: errChan := make(chan error, 1);
\* clonedBackoff := retryClient.backoff.Clone(); go func() {...}(); return errChan
StartDelivery(c, viaPush, cancelled) ==
    LET cl == Clone(backoffs, clients[c].backoff)
    IN  /\ backoffs' = cl.heap
        /\ deliveries' = Append(deliveries, NewDelivery(c, cl.ref, viaPush, cancelled))
        /\ UNCHANGED <<clients, held, parts>>

PushWithHandle(c, cancelled) == StartDelivery(c, FALSE, cancelled)

\* Push(ctx, entry), first statement: retryClient.PushWithHandle(ctx, entry)
Push(c, cancelled) == StartDelivery(c, TRUE, cancelled)

Upd(d, r) == deliveries' = [deliveries EXCEPT ![d] = r]

\* A Push that waits for the delivery and returns its error.
PushReturnAfterDelivery(d) ==
    /\ deliveries[d].viaPush
    /\ deliveries[d].ret = "pending"
    /\ Terminated(deliveries[d])
    /\ Upd(d, [deliveries[d] EXCEPT !.ret = deliveries[d].err])
    /\ UNCHANGED <<backoffs, clients, held, parts>>

\* Push(ctx, entry), second statement: return nil
PushReturn(d) ==
    /\ deliveries[d].viaPush
    /\ deliveries[d].ret = "pending"
    /\ Upd(d, [deliveries[d] EXCEPT !.ret = "nil"])
    /\ UNCHANGED <<backoffs, clients, held, parts>>

\* The goroutine's first statement: err := retryClient.inner.Push(ctx, entry)
\* A goroutine that starts the first push twice over, without waiting for the
\* first to return.
GoPushTwice(d) ==
    /\ deliveries[d].pc = "go"
    /\ Upd(d, [deliveries[d] EXCEPT !.pc = "push", !.attempts = @ + 2])
    /\ UNCHANGED <<backoffs, clients, held, parts>>

\* A goroutine that looks at ctx before the first push and gives up when it is
\* cancelled.
GoPushChecksCtx(d) ==
    /\ deliveries[d].pc = "go"
    /\ IF deliveries[d].ctxDone
       THEN Upd(d, [deliveries[d] EXCEPT !.pc = "cancelled"])
       ELSE Upd(d, [deliveries[d] EXCEPT !.pc = "push", !.attempts = @ + 1])
    /\ UNCHANGED <<backoffs, clients, held, parts>>

GoPush(d) ==
    /\ deliveries[d].pc = "go"
    /\ Upd(d, [deliveries[d] EXCEPT !.pc = "push", !.attempts = @ + 1])
    /\ UNCHANGED <<backoffs, clients, held, parts>>

\* A loop that looks at ctx after every push attempt and abandons when it is
\* cancelled, whatever the attempt returned.
PushReturnsChecksCtx(d, r) ==
    LET D == deliveries[d]
        b == backoffs[D.backoff]
    IN  /\ D.pc = "push"
        /\ r = "status" => (D.fails < MaxFail \/ b.Max # 0)
        /\ IF D.ctxDone
           THEN /\ Upd(d, [D EXCEPT !.pc = "cancelled", !.err = r,
                                    !.fails = IF r = "status" THEN @ + 1 ELSE @])
                /\ UNCHANGED backoffs
           ELSE IF IsPushStatusError(r)
           THEN /\ backoffs' = [backoffs EXCEPT ![D.backoff] = NextState(b)]
                /\ Upd(d, [D EXCEPT !.pc = "select", !.err = r,
                                    !.fails = IF r = "status" THEN Tick(@) ELSE @,
                                    !.timer = NextChan(b), !.nexts = Tick(@),
                                    !.waits = IF NextStops(b) \/ Len(@) = MaxCount
                                              THEN @ ELSE Append(@, NextDelay(b))])
           ELSE /\ Upd(d, [D EXCEPT !.pc = "send", !.err = r])
                /\ UNCHANGED backoffs
        /\ UNCHANGED <<clients, held, parts>>

\* The status errors of a delivery are limited to MaxFail where the backoff has
\* no ceiling; under a ceiling they are as many as the backoff allows.
\* inner.Push returns r and the loop condition is evaluated:
\*   for errors.Is(err, &client.PushStatusError{}) { select { case ... <-clonedBackoff.Next():
\* When it holds, Next() is called on entering the select.
PushReturns(d, r) ==
    LET D == deliveries[d]
        b == backoffs[D.backoff]
    IN  /\ D.pc = "push"
        /\ r = "status" => (D.fails < MaxFail \/ b.Max # 0)
        /\ IF IsPushStatusError(r)
           THEN /\ backoffs' = [backoffs EXCEPT ![D.backoff] = NextState(b)]
                /\ Upd(d, [D EXCEPT !.pc = "select", !.err = r,
                                    !.fails = IF r = "status" THEN Tick(@) ELSE @,
                                    !.timer = NextChan(b), !.nexts = Tick(@),
                                    !.waits = IF NextStops(b) \/ Len(@) = MaxCount
                                              THEN @ ELSE Append(@, NextDelay(b))])
           ELSE /\ Upd(d, [D EXCEPT !.pc = "send", !.err = r,
                                    !.fails = IF r = "status" THEN @ + 1 ELSE @])
                /\ UNCHANGED backoffs
        /\ UNCHANGED <<clients, held, parts>>

\* The timer of time.After(delay) fires.
TimerFires(d) ==
    /\ deliveries[d].timer = "pending"
    /\ Upd(d, [deliveries[d] EXCEPT !.timer = "fired"])
    /\ UNCHANGED <<backoffs, clients, held, parts>>

\* Where the goroutine is, as the caller who cancels sees it.
Phase(D) ==
    CASE D.pc = "push" -> "push"
      [] D.pc = "select" /\ D.timer = "pending" -> "wait"
      [] OTHER -> "other"

\* The caller cancels ctx.
Cancel(d) ==
    /\ ~deliveries[d].ctxDone
    /\ ~Terminated(deliveries[d])
    /\ Upd(d, [deliveries[d] EXCEPT !.ctxDone = TRUE, !.cancelAt = Phase(deliveries[d])])
    /\ UNCHANGED <<backoffs, clients, held, parts>>

\* A select that takes the backoff case while the timer is still running.
SelectBackoffNoWait(d) ==
    LET D == deliveries[d]
    IN  /\ D.pc = "select"
        /\ D.timer \in {"pending", "fired", "closed"}
        /\ IF D.timer = "closed"
           THEN Upd(d, [D EXCEPT !.pc = "stopped", !.timer = "none"])
           ELSE Upd(d, [D EXCEPT !.pc = "push", !.timer = "none", !.attempts = Tick(@)])
        /\ UNCHANGED <<backoffs, clients, held, parts>>

\* case _, ok := <-clonedBackoff.Next(): if !ok { return }; err = inner.Push(ctx, entry)
SelectBackoff(d) ==
    LET D == deliveries[d]
    IN  /\ D.pc = "select"
        /\ D.timer \in {"fired", "closed"}
        /\ IF D.timer = "closed"
           THEN Upd(d, [D EXCEPT !.pc = "stopped", !.timer = "none"])
           ELSE Upd(d, [D EXCEPT !.pc = "push", !.timer = "none", !.attempts = Tick(@)])
        /\ UNCHANGED <<backoffs, clients, held, parts>>

\* A cancellation branch that closes the channel before it returns.
SelectDoneCloses(d) ==
    LET D == deliveries[d]
    IN  /\ D.pc = "select"
        /\ D.ctxDone
        /\ Upd(d, [D EXCEPT !.pc = "cancelled", !.timer = "none",
                            !.errChan.closed = TRUE, !.closes = @ + 1])
        /\ UNCHANGED <<backoffs, clients, held, parts>>

\* case <-ctx.Done(): return
SelectDone(d) ==
    LET D == deliveries[d]
    IN  /\ D.pc = "select"
        /\ D.ctxDone
        /\ Upd(d, [D EXCEPT !.pc = "cancelled", !.timer = "none"])
        /\ UNCHANGED <<backoffs, clients, held, parts>>

\* A report that sends err without testing it.
SendAlways(d) ==
    LET D == deliveries[d]
    IN  /\ D.pc = "send"
        /\ Len(D.errChan.buf) < ErrChanCap
        /\ Upd(d, [D EXCEPT !.pc = "close",
                            !.errChan.buf = Append(@, D.err),
                            !.sent = Append(@, D.err),
                            !.sentAfterClose = D.errChan.closed])
        /\ UNCHANGED <<backoffs, clients, held, parts>>

\* A report on a channel without buffer: the send completes only into a
\* receive of the caller who holds the channel.
SendErrUnbuffered(d) ==
    LET D == deliveries[d]
    IN  /\ D.pc = "send"
        /\ IF D.err # "nil"
           THEN /\ D.ret = "errChan"
                /\ ~D.sawClose
                /\ Upd(d, [D EXCEPT !.pc = "close",
                                    !.got = Append(@, D.err),
                                    !.sent = Append(@, D.err),
                                    !.sentAfterClose = D.errChan.closed])
           ELSE Upd(d, [D EXCEPT !.pc = "close"])
        /\ UNCHANGED <<backoffs, clients, held, parts>>

\* if err != nil { errChan <- err }
SendErr(d) ==
    LET D == deliveries[d]
    IN  /\ D.pc = "send"
        /\ IF D.err # "nil"
           THEN /\ Len(D.errChan.buf) < ErrChanCap
                /\ Upd(d, [D EXCEPT !.pc = "close",
                                    !.errChan.buf = Append(@, D.err),
                                    !.sent = Append(@, D.err),
                                    !.sentAfterClose = D.errChan.closed])
           ELSE Upd(d, [D EXCEPT !.pc = "close"])
        /\ UNCHANGED <<backoffs, clients, held, parts>>

\* close(errChan)
CloseErrChan(d) ==
    LET D == deliveries[d]
    IN  /\ D.pc = "close"
        /\ Upd(d, [D EXCEPT !.pc = "done", !.errChan.closed = TRUE, !.closes = @ + 1])
        /\ UNCHANGED <<backoffs, clients, held, parts>>

\* The caller of PushWithHandle receives from the channel: a buffered value, or
\* the report that the channel is closed and empty.
Receive(d) ==
    LET D == deliveries[d]
    IN  /\ D.ret = "errChan"
        /\ ~D.sawClose
        /\ \/ /\ D.errChan.buf # <<>>
              /\ Upd(d, [D EXCEPT !.errChan.buf = Tail(@), !.got = Append(@, Head(D.errChan.buf))])
           \/ /\ D.errChan.buf = <<>>
              /\ D.errChan.closed
              /\ Upd(d, [D EXCEPT !.sawClose = TRUE])
        /\ UNCHANGED <<backoffs, clients, held, parts>>

Next ==
    \/ \E c \in 1 .. Len(clients), cancelled \in BOOLEAN :
           Len(deliveries) < MaxDeliveries /\ PushWithHandle(c, cancelled)
    \/ \E c \in 1 .. Len(clients), cancelled \in BOOLEAN :
           Len(deliveries) < MaxDeliveries /\ Push(c, cancelled)
    \/ \E d \in Ids : PushReturn(d)
    \/ \E d \in Ids : GoPush(d)
    \/ \E d \in Ids, r \in PushResults : PushReturns(d, r)
    \/ \E d \in Ids : TimerFires(d)
    \/ \E d \in Ids : Cancel(d)
    \/ \E d \in Ids : SelectBackoff(d)
    \/ \E d \in Ids : SelectDone(d)
    \/ \E d \in Ids : SendErr(d)
    \/ \E d \in Ids : CloseErrChan(d)
    \/ \E d \in Ids : Receive(d)

Spec == Init /\ [][Next]_vars

\* One step of delivery d's goroutine, of its timer or of the inner client
\* answering it: what the Go scheduler, the timer and a responsive inner client
\* eventually do.  Calls, cancellations and receives are the caller's choice.
Progress(d) ==
    \/ GoPush(d)
    \/ \E r \in PushResults : PushReturns(d, r)
    \/ TimerFires(d)
    \/ SelectBackoff(d)
    \/ SelectDone(d)
    \/ SendErr(d)
    \/ CloseErrChan(d)

\* The same program under a fair scheduler and an inner client that answers.
LiveSpec == Init /\ [][Next]_vars /\ \A d \in 1 .. MaxDeliveries : WF_vars(d \in Ids /\ Progress(d))

\* Concurrent deliveries on one client, none of whose contexts is cancelled.
ConcNext ==
    \/ \E c \in 1 .. Len(clients) : Len(deliveries) < MaxConcurrent /\ PushWithHandle(c, FALSE)
    \/ \E c \in 1 .. Len(clients) : Len(deliveries) < MaxConcurrent /\ Push(c, FALSE)
    \/ \E d \in Ids : PushReturn(d)
    \/ \E d \in Ids : GoPush(d)
    \/ \E d \in Ids, r \in PushResults : PushReturns(d, r)
    \/ \E d \in Ids : TimerFires(d)
    \/ \E d \in Ids : SelectBackoff(d)
    \/ \E d \in Ids : SendErr(d)
    \/ \E d \in Ids : CloseErrChan(d)
    \/ \E d \in Ids : Receive(d)

ConcSpec == Init /\ [][ConcNext]_vars

\* ------------------------------------------------ the caller's own backoffs
\* The ExponentialBackoff values a caller constructs: the zero value with a
\* one-second ceiling, a ceiling two doublings away, and two without a ceiling
\* and with factor 1.5, from 100ms and from a single nanosecond.
HeldBackoffs ==
    { ExponentialBackoff(0, 0, 1000 * Millisecond),
      ExponentialBackoff(500 * Millisecond, 2 * FactorDen, 1000 * Millisecond),
      ExponentialBackoff(100 * Millisecond, (3 * FactorDen) \div 2, 0),
      ExponentialBackoff(1, (3 * FactorDen) \div 2, 0) }

\* More of them: Factor unset with a Delay set, under a ceiling and without
\* one; Delay unset under a ceiling below the default delay; and a delay of one
\* nanosecond with factor 1.5 under a ceiling of two.
EdgeBackoffs ==
    { ExponentialBackoff(300 * Millisecond, 0, 1000 * Millisecond),
      ExponentialBackoff(3, 0, 0),
      ExponentialBackoff(0, (3 * FactorDen) \div 2, 50 * Millisecond),
      ExponentialBackoff(1, (3 * FactorDen) \div 2, 2) }

\* What one Next call on b hands back: ok is FALSE for the closed channel (the
\* stop sentinel), otherwise wait is the duration given to time.After.
NextResult(b) ==
    IF NextStops(b) THEN [ok |-> FALSE, wait |-> 0]
                    ELSE [ok |-> TRUE, wait |-> NextDelay(b)]

\* The backoff object behind the caller's variable h.
Obj(h) == backoffs[held[h].ref]

RECURSIVE SumOut(_)
SumOut(n) == IF n = 0 THEN 0 ELSE Len(held[n].out) + SumOut(n - 1)

\* Number of calls the caller has made on backoffs and on WithBackoff.
Calls == Len(held) + SumOut(Len(held)) + (Len(clients) - 1)

\* A constructor that resolves the unset fields to the defaults.
NewBackoffResolved(b) ==
    /\ backoffs' = Append(backoffs,
                          ExponentialBackoff(IF b.Delay = 0 THEN DefaultInitialDelay ELSE b.Delay,
                                             IF b.Factor = 0 THEN DefaultFactor ELSE b.Factor,
                                             b.Max))
    /\ held' = Append(held, [ref |-> Len(backoffs) + 1, origin |-> b,
                              parent |-> 0, at |-> 0, out |-> << >>])
    /\ UNCHANGED <<clients, deliveries, parts>>

\* b := &ExponentialBackoff{...}
NewBackoff(b) ==
    /\ backoffs' = Append(backoffs, b)
    /\ held' = Append(held, [ref |-> Len(backoffs) + 1, origin |-> b,
                              parent |-> 0, at |-> 0, out |-> << >>])
    /\ UNCHANGED <<clients, deliveries, parts>>

\* <-b.Next() on a backoff the caller holds
CallNext(h) ==
    /\ h \in DOMAIN held
    /\ backoffs' = [backoffs EXCEPT ![held[h].ref] = NextState(@)]
    /\ held' = [held EXCEPT ![h].out = Append(@, NextResult(Obj(h)))]
    /\ UNCHANGED <<clients, deliveries, parts>>

\* c := b.Clone() on a backoff the caller holds
CallClone(h) ==
    /\ h \in DOMAIN held
    /\ LET k == Clone(backoffs, held[h].ref)
       IN  /\ backoffs' = k.heap
           /\ held' = Append(held, [ref |-> k.ref, origin |-> k.heap[k.ref],
                                    parent |-> h, at |-> Len(held[h].out),
                                    out |-> << >>])
    /\ UNCHANGED <<clients, deliveries, parts>>

\* A WithBackoff that stores the caller's backoff itself: no Clone.
WithBackoffShared(heap, cls, c, r) ==
    [heap |-> heap,
     clients |-> Append(cls, [inner |-> cls[c].inner, backoff |-> r])]

\* A WithBackoff that also gives the receiver the new backoff.
WithBackoffInPlace(heap, cls, c, r) ==
    LET k == Clone(heap, r)
    IN  [heap |-> k.heap,
         clients |-> Append([cls EXCEPT ![c].backoff = k.ref],
                            [inner |-> cls[c].inner, backoff |-> k.ref])]

\* retry.go:101-106  WithBackoff on client c of cls with the backoff at r: a new
\* client with the receiver's inner client and a clone of the backoff.
WithBackoff(heap, cls, c, r) ==
    LET k == Clone(heap, r)
    IN  [heap |-> k.heap,
         clients |-> Append(cls, [inner |-> cls[c].inner, backoff |-> k.ref])]

\* derived := client.WithBackoff(b)
CallWithBackoff(c, h) ==
    /\ c \in 1..Len(clients)
    /\ h \in DOMAIN held
    /\ LET w == WithBackoff(backoffs, clients, c, held[h].ref)
       IN  /\ backoffs' = w.heap
           /\ clients' = w.clients
    /\ UNCHANGED <<deliveries, held, parts>>

BackoffNext ==
    \/ \E b \in HeldBackoffs \cup EdgeBackoffs :
          Len(held) < MaxHeld /\ Calls < MaxCalls /\ NewBackoff(b)
    \/ \E h \in DOMAIN held : Calls < MaxCalls /\ CallNext(h)
    \/ \E h \in DOMAIN held :
          Len(held) < MaxHeld /\ Calls < MaxCalls /\ CallClone(h)
    \/ \E c \in 1..Len(clients), h \in DOMAIN held :
          Len(clients) < MaxClients /\ Calls < MaxCalls /\ CallWithBackoff(c, h)

\* A caller that constructs backoffs, calls Next and Clone on them and derives
\* clients from them; no delivery is made.
BackoffSpec == Init /\ [][BackoffNext]_vars

\* The state after client := NewRetryClient(inner); derived := client.WithBackoff(b).
DerivedInit ==
    \E b \in HeldBackoffs :
        LET w == WithBackoff(<< ExponentialBackoff(0, 0, 0), b >>,
                             << [inner |-> "inner", backoff |-> 1] >>, 1, 2)
        IN  /\ backoffs = w.heap
            /\ clients = w.clients
            /\ deliveries = << >>
            /\ held = << [ref |-> 2, origin |-> b, parent |-> 0, at |-> 0,
                           out |-> << >>] >>
            /\ PartsIdle

DerivedNext ==
    \/ \E c \in 1..Len(clients) :
          Len(deliveries) < MaxConcurrent /\ PushWithHandle(c, FALSE)
    \/ \E d \in Ids : GoPush(d)
    \/ \E d \in Ids, r \in PushResults : PushReturns(d, r)
    \/ \E d \in Ids : TimerFires(d)
    \/ \E d \in Ids : SelectBackoff(d)
    \/ \E d \in Ids : SendErr(d)
    \/ \E d \in Ids : CloseErrChan(d)

\* Deliveries, never cancelled, on a client made by NewRetryClient and on a
\* client derived from it.
DerivedSpec == DerivedInit /\ [][DerivedNext]_vars

\* The backoffs of the clients whose deliveries are followed to their end: the
\* zero value and 500ms doubling under a ceiling of one second, and one
\* nanosecond with factor 1.5 under a ceiling of two.
ExhaustBackoffs ==
    { ExponentialBackoff(0, 0, 1000 * Millisecond),
      ExponentialBackoff(500 * Millisecond, 2 * FactorDen, 1000 * Millisecond),
      ExponentialBackoff(1, (3 * FactorDen) \div 2, 2) }

\* NewRetryClient(inner).WithBackoff(b), seen as the one client.
ExhaustInit ==
    /\ \E b \in ExhaustBackoffs : backoffs = << b >>
    /\ clients = << [inner |-> "inner", backoff |-> 1] >>
    /\ deliveries = << >>
    /\ held = << >>
    /\ PartsIdle

ExhaustNext ==
    \/ \E c \in 1 .. Len(clients) :
          Len(deliveries) < MaxDeliveries /\ PushWithHandle(c, FALSE)
    \/ \E d \in Ids : GoPush(d)
    \/ \E d \in Ids, r \in PushResults : PushReturns(d, r)
    \/ \E d \in Ids : TimerFires(d)
    \/ \E d \in Ids : SelectBackoff(d)
    \/ \E d \in Ids : SendErr(d)
    \/ \E d \in Ids : CloseErrChan(d)

\* Deliveries, never cancelled, on a client whose backoff has a ceiling, under
\* a fair scheduler and an inner client that answers, with whatever result.
ExhaustSpec ==
    ExhaustInit /\ [][ExhaustNext]_vars
        /\ \A d \in 1 .. MaxDeliveries : WF_vars(d \in Ids /\ Progress(d))

\* --------------------------------------------------- LokiClient.Push, steps
\* A return of Push with err: the deferred resp.Body.Close() runs, and the
\* call is recorded with the response it got, if any.
LokiReturn(err) ==
    /\ lokiPush' = [pc |-> "idle", resp |-> NoResponse, open |-> FALSE,
                    returned |-> Append(lokiPush.returned,
                                        [err |-> err, resp |-> lokiPush.resp])]
    /\ UNCHANGED <<backoffs, clients, deliveries, held, joined, sink, more>>

LokiStep(pc) ==
    /\ lokiPush' = [lokiPush EXCEPT !.pc = pc]
    /\ UNCHANGED <<backoffs, clients, deliveries, held, joined, sink, more>>

\* lokiClient.Push(ctx, entry) is called.
LokiPushCall ==
    /\ lokiPush.pc = "idle"
    /\ LokiStep("encode")

\* part_003:61-64  buf, err := entry.Encode()
LokiEncode(ok) ==
    /\ lokiPush.pc = "encode"
    /\ IF ok THEN LokiStep("request") ELSE LokiReturn(StageError("encode"))

\* part_003:66-69  req, err := http.NewRequestWithContext(...)
LokiNewRequest(ok) ==
    /\ lokiPush.pc = "request"
    /\ IF ok THEN LokiStep("do") ELSE LokiReturn(StageError("request"))

\* part_003:74-78  resp, err := client.client.Do(req); defer resp.Body.Close()
LokiDo(ok, code, body) ==
    /\ lokiPush.pc = "do"
    /\ IF ok
       THEN /\ lokiPush' = [lokiPush EXCEPT
                               !.pc = "check", !.open = TRUE,
                               !.resp = [StatusCode |-> code, Status |-> StatusOf(code),
                                         Body |-> body]]
            /\ UNCHANGED <<backoffs, clients, deliveries, held, joined, sink, more>>
       ELSE LokiReturn(StageError("transport"))

\* A status test that takes 200 for a failure.
IsFailureStatusFrom200(code) == code <= 200 \/ code >= 300

\* part_003:80  resp.StatusCode < 200 || resp.StatusCode >= 300
IsFailureStatus(code) == code < 200 \/ code >= 300

\* part_003:80, 96  the status test; return nil
LokiCheckStatus ==
    /\ lokiPush.pc = "check"
    /\ IF IsFailureStatus(lokiPush.resp.StatusCode)
       THEN LokiStep("read")
       ELSE LokiReturn(NilError)

\* part_003:81-93  body, err := io.ReadAll(resp.Body) and the two returns
LokiReadAll(ok) ==
    /\ lokiPush.pc = "read"
    /\ LET r == lokiPush.resp
       IN  IF ok
           THEN LokiReturn(PushStatusError(r.StatusCode, r.Status, r.Body))
           ELSE LokiReturn(JoinError(PushStatusError(r.StatusCode, r.Status, NoBody),
                                     StageError("read")))

LokiPushNext ==
    \/ Len(lokiPush.returned) < MaxPushes /\ LokiPushCall
    \/ \E ok \in BOOLEAN : LokiEncode(ok)
    \/ \E ok \in BOOLEAN : LokiNewRequest(ok)
    \/ \E ok \in BOOLEAN, code \in StatusCodes, body \in Bodies : LokiDo(ok, code, body)
    \/ LokiCheckStatus
    \/ \E ok \in BOOLEAN : LokiReadAll(ok)

\* Push calls on one LokiClient, one after another, against any server.
LokiPushInit == RetryIdle /\ PartsIdle

LokiPushSpec == LokiPushInit /\ [][LokiPushNext]_vars

\* --------------------------------------------------------------- fake.Server
\* server.go:17  const PushPath
PushPath == "/loki/api/v1/push"

\* A request that has reached the server: its method and path, whether its
\* body can be read, decoded and unmarshalled, the n streams in it (all of
\* entry), the delivery and attempt it comes from (0 for another client), where
\* its ServeHTTP call is, the status written, and whether the sendError branch
\* was taken.
Request(method, path, wellFormed, entry, n, from, attempt) ==
    [method |-> method, path |-> path, wellFormed |-> wellFormed,
     entry |-> entry, n |-> n, from |-> from, attempt |-> attempt,
     pc |-> "route", status |-> 0, counted |-> FALSE]

\* pushRequest.Streams of request q
RECURSIVE StreamsOf(_, _)
StreamsOf(entry, n) == IF n = 0 THEN << >> ELSE << entry >> \o StreamsOf(entry, n - 1)

FakeUpd(s) ==
    /\ server' = s
    /\ UNCHANGED <<backoffs, clients, deliveries, held, lokiPush, joined, sink,
                   isCalls, writer, derived>>

ServeUpd(r, q) == FakeUpd([server EXCEPT !.requests[r] = q])

\* A client other than the retrying client sends a request.
FakeRequest(method, path, wellFormed, n) ==
    LET r == Len(server.requests) + 1
    IN  FakeUpd([server EXCEPT !.requests =
                     Append(@, Request(method, path, wellFormed, <<"request", r>>, n, 0, 0))])

\* server.go:63-76  the path and method tests, before the lock is asked for
ServeRoute(r) ==
    LET q == server.requests[r]
    IN  /\ q.pc = "route"
        /\ IF q.path # PushPath
           THEN ServeUpd(r, [q EXCEPT !.pc = "done", !.status = 404])
           ELSE IF q.method # "POST"
           THEN ServeUpd(r, [q EXCEPT !.pc = "done", !.status = 405])
           ELSE ServeUpd(r, [q EXCEPT !.pc = "lock"])

\* A handler that goes on without holding the lock.
ServeLockUnguarded(r) ==
    LET q == server.requests[r]
    IN  /\ q.pc = "lock"
        /\ FakeUpd([server EXCEPT !.order = Append(@, r), !.lock = r,
                                  !.requests[r] = [q EXCEPT !.pc = "check"]])

\* server.go:78  server.lock.Lock(): granted when nobody holds the lock
ServeLock(r) ==
    LET q == server.requests[r]
    IN  /\ q.pc = "lock"
        /\ server.lock = 0
        /\ FakeUpd([server EXCEPT !.order = Append(@, r), !.lock = r,
                                  !.requests[r] = [q EXCEPT !.pc = "check"]])

\* server.go:81  if server.sendError > 0.  sendError is a uint: it is above
\* zero when it is not zero, and the model writes -1 for the value a decrement
\* of zero wraps to.
ServeCheck(r) ==
    LET q == server.requests[r]
    IN  /\ q.pc = "check"
        /\ IF server.sendError # 0
           THEN ServeUpd(r, [q EXCEPT !.pc = "decrement"])
           ELSE ServeUpd(r, [q EXCEPT !.pc = "read"])

\* A sendError branch that stores the streams of the request it rejects.
ServeDecrementStores(r) ==
    LET q == server.requests[r]
    IN  /\ q.pc = "decrement"
        /\ FakeUpd([server EXCEPT
                        !.sendError = IF @ = 0 THEN -1 ELSE @ - 1,
                        !.streams = @ \o StreamsOf(q.entry, q.n),
                        !.requests[r] = [q EXCEPT !.pc = "unlock", !.status = 500,
                                                  !.counted = TRUE]])

\* server.go:82-86  server.sendError--; writeError(...); return
ServeDecrement(r) ==
    LET q == server.requests[r]
    IN  /\ q.pc = "decrement"
        /\ FakeUpd([server EXCEPT
                        !.sendError = IF @ = 0 THEN -1 ELSE @ - 1,
                        !.requests[r] = [q EXCEPT !.pc = "unlock", !.status = 500,
                                                  !.counted = TRUE]])

\* server.go:89-114  read, decode and unmarshal the body, each failure answered
\* by writeError; then append the streams and answer 204
ServeStore(r) ==
    LET q == server.requests[r]
    IN  /\ q.pc = "read"
        /\ IF ~q.wellFormed
           THEN ServeUpd(r, [q EXCEPT !.pc = "unlock", !.status = 500])
           ELSE FakeUpd([server EXCEPT
                            !.streams = @ \o StreamsOf(q.entry, q.n),
                            !.requests[r] = [q EXCEPT !.pc = "unlock", !.status = 204]])

\* server.go:79  defer server.lock.Unlock(), on return
ServeUnlock(r) ==
    LET q == server.requests[r]
    IN  /\ q.pc = "unlock"
        /\ FakeUpd([server EXCEPT !.lock = 0,
                                  !.requests[r] = [q EXCEPT !.pc = "done"]])

\* The requests other clients send: posts of one and of two streams, a post
\* whose body is not a push request, a GET, and a post to another path.
FakeRequests ==
    { [method |-> "POST", path |-> PushPath, wellFormed |-> TRUE, n |-> 1],
      [method |-> "POST", path |-> PushPath, wellFormed |-> TRUE, n |-> 2],
      [method |-> "POST", path |-> PushPath, wellFormed |-> FALSE, n |-> 1],
      [method |-> "GET", path |-> PushPath, wellFormed |-> TRUE, n |-> 1],
      [method |-> "POST", path |-> "/ready", wellFormed |-> TRUE, n |-> 1] }

FakeNext ==
    \/ \E i \in FakeRequests :
          /\ Len(server.requests) < MaxRequests
          /\ FakeRequest(i.method, i.path, i.wellFormed, i.n)
    \/ \E r \in DOMAIN server.requests : ServeRoute(r)
    \/ \E r \in DOMAIN server.requests : ServeLock(r)
    \/ \E r \in DOMAIN server.requests : ServeCheck(r)
    \/ \E r \in DOMAIN server.requests : ServeDecrement(r)
    \/ \E r \in DOMAIN server.requests : ServeStore(r)
    \/ \E r \in DOMAIN server.requests : ServeUnlock(r)

\* fake.NewServer(n) for the counts up to MaxSendError, nothing else running.
FakeInit ==
    /\ RetryIdle
    /\ lokiPush = IdlePush
    /\ joined = NewJoinedHandler(<< >>)
    /\ sink = NewLokiSink(0)
    /\ isCalls = << >>
    /\ \E n \in 0 .. MaxSendError : server = NewServer(n)
    /\ writer = NewLokiWriter(<< >>)
    /\ derived = << >>

\* A fake server and the clients that send it requests concurrently.
FakeSpec == FakeInit /\ [][FakeNext]_vars

\* ------------------------------- the retrying client against a fake server
\* inner.Push of delivery d sends the request of its current attempt: a POST to
\* the push path whose body is the one stream of the entry (entry.go:56-76,
\* part_003:66-74).
ServedSend(d) ==
    LET D == deliveries[d]
    IN  /\ D.pc = "push"
        /\ \A r \in DOMAIN server.requests :
              ~(server.requests[r].from = d /\ server.requests[r].attempt = D.attempts)
        /\ FakeUpd([server EXCEPT !.requests =
                        Append(@, Request("POST", PushPath, TRUE, <<"delivery", d>>, 1,
                                          d, D.attempts))])

\* inner.Push of delivery d returns what LokiClient.Push makes of the server's
\* answer to the current attempt: nil, or a PushStatusError (part_003:80-96).
ServedReturn(d) ==
    \E r \in DOMAIN server.requests :
        LET q == server.requests[r]
        IN  /\ q.from = d
            /\ q.attempt = deliveries[d].attempts
            /\ q.pc = "done"
            /\ PushReturns(d, IF IsFailureStatus(q.status) THEN "status" ELSE "nil")

\* inner.Push of delivery d returns the error of client.Do: the request or its
\* answer was lost, or ctx was cancelled (part_003:74-77).
ServedFails(d) == PushReturns(d, "other")

ServedNext ==
    \/ \E c \in 1 .. Len(clients) : Len(deliveries) < MaxDeliveries /\ PushWithHandle(c, FALSE)
    \/ \E d \in Ids : GoPush(d)
    \/ \E d \in Ids : Len(server.requests) < MaxRequests /\ ServedSend(d)
    \/ \E r \in DOMAIN server.requests : ServeRoute(r)
    \/ \E r \in DOMAIN server.requests : ServeLock(r)
    \/ \E r \in DOMAIN server.requests : ServeCheck(r)
    \/ \E r \in DOMAIN server.requests : ServeDecrement(r)
    \/ \E r \in DOMAIN server.requests : ServeStore(r)
    \/ \E r \in DOMAIN server.requests : ServeUnlock(r)
    \/ \E d \in Ids : ServedReturn(d)
    \/ \E d \in Ids : ServedFails(d)
    \/ \E d \in Ids : TimerFires(d)
    \/ \E d \in Ids : SelectBackoff(d)
    \/ \E d \in Ids : SendErr(d)
    \/ \E d \in Ids : CloseErrChan(d)
    \/ \E d \in Ids : Receive(d)

\* retry_test.go:160-167  fake.NewServer(n), a LokiClient on its URL and
\* NewRetryClient on that.
ServedInit ==
    /\ \E b \in ClientBackoffs : backoffs = << b >>
    /\ clients = << [inner |-> "inner", backoff |-> 1] >>
    /\ deliveries = << >>
    /\ held = << >>
    /\ lokiPush = IdlePush
    /\ joined = NewJoinedHandler(<< >>)
    /\ sink = NewLokiSink(0)
    /\ isCalls = << >>
    /\ \E n \in 0 .. MaxSendError : server = NewServer(n)
    /\ writer = NewLokiWriter(<< >>)
    /\ derived = << >>

\* Deliveries of a retrying client whose inner client is a LokiClient on a fake
\* server that no other client posts to, none of their contexts cancelled.
ServedSpec == ServedInit /\ [][ServedNext]_vars

\* ---------------------------------------------------------- log.LokiWriter
\* The bytes of a message: a letter, line feed, carriage return.
Bytes == {"a", "\n", "\r"}

RECURSIVE Messages(_)
Messages(n) ==
    IF n = 0 THEN {<< >>}
    ELSE Messages(n - 1) \cup {Append(m, c) : m \in {x \in Messages(n - 1) : Len(x) = n - 1}, c \in Bytes}

\* log.go:81-87  the loop from the last byte down: stop at the first byte that
\* is neither line feed nor carriage return, else cut the message before it
RECURSIVE StripTrailing(_)
StripTrailing(message) ==
    IF message = << >> THEN message
    ELSE IF message[Len(message)] # "\n" /\ message[Len(message)] # "\r" THEN message
    ELSE StripTrailing(SubSeq(message, 1, Len(message) - 1))

\* log.go:91-96  the entry of a message; Timestamp is time.Now()
WriterEntry(w, message) ==
    [Labels |-> w.preformattedLabels, Line |-> StripTrailing(message),
     StructuredMetadata |-> "nil"]

WriterUpd(w) ==
    /\ writer' = w
    /\ UNCHANGED <<backoffs, clients, deliveries, held, lokiPush, joined, sink,
                   isCalls, server, derived>>

\* A Write that returns the length of the line it pushed.
WriteLineLen(message, err) ==
    LET entry == WriterEntry(writer, message)
    IN  WriterUpd([writer EXCEPT
            !.pushed = Append(@, entry),
            !.calls = Append(@, [message |-> message, entry |-> entry, err |-> err,
                                 n |-> IF err # "nil" THEN 0 ELSE Len(entry.Line)])])

\* log.go:78-104  Write(message), the client's Push returning err
Write(message, err) ==
    LET entry == WriterEntry(writer, message)
    IN  WriterUpd([writer EXCEPT
            !.pushed = Append(@, entry),
            !.calls = Append(@, [message |-> message, entry |-> entry, err |-> err,
                                 n |-> IF err # "nil" THEN 0 ELSE Len(message)])])

\* The label maps a writer is created with.
WriterLabels == { << >>, << <<"app", "demo">>, <<"env", "dev">> >> }

WriterNext ==
    \E message \in Messages(MaxMessageLen), err \in PushResults :
        Len(writer.calls) < MaxWrites /\ Write(message, err)

WriterInit ==
    /\ RetryIdle
    /\ lokiPush = IdlePush
    /\ joined = NewJoinedHandler(<< >>)
    /\ sink = NewLokiSink(0)
    /\ isCalls = << >>
    /\ server = NewServer(0)
    /\ \E labels \in WriterLabels : writer = NewLokiWriter(labels)
    /\ derived = << >>

\* Write calls on one LokiWriter, whatever its client answers.
WriterSpec == WriterInit /\ [][WriterNext]_vars

\* ------------------------------------------------- PushStatusError.Is, errors.Is
\* The error value e as the object at address a: two pointers are equal when
\* they point to the same object.
At(e, a) == [x \in DOMAIN e \cup {"addr"} |-> IF x = "addr" THEN a ELSE e[x]]

\* (*PushStatusError)(nil) in an error interface: not the nil error.
NilPushStatusError == [kind |-> "PushStatusError", nilptr |-> TRUE]

IsNilPointer(e) == "nilptr" \in DOMAIN e

\* fmt.Errorf("...: %w", e)
WrapError(e) == [kind |-> "wrap", err |-> e]

\* An Is that also wants the status codes to agree.
IsSameStatusCode(e, target) ==
    /\ target # NilError
    /\ target.kind = "PushStatusError"
    /\ ~IsNilPointer(e) /\ ~IsNilPointer(target)
    /\ e.StatusCode = target.StatusCode

\* part_003:117-125  (e *PushStatusError).Is(target): target == nil is the test
\* for the nil interface, then the type assertion target.(*PushStatusError)
Is(e, target) ==
    /\ target # NilError
    /\ target.kind = "PushStatusError"

\* errors.Is below its nil test: err is target, or err has an Is method that
\* accepts target, or what err unwraps to matches.
RECURSIVE ErrorsIsChain(_, _)
ErrorsIsChain(err, target) ==
    \/ err = target
    \/ err.kind = "PushStatusError" /\ Is(err, target)
    \/ err.kind = "wrap" /\ err.err # NilError /\ ErrorsIsChain(err.err, target)
    \/ err.kind = "join" /\ \E i \in 1 .. Len(err.errs) : ErrorsIsChain(err.errs[i], target)

\* errors.Is(err, target)
ErrorsIs(err, target) ==
    IF err = NilError \/ target = NilError
    THEN err = target
    ELSE ErrorsIsChain(err, target)

\* The error objects of a program: two status errors, an error of another
\* type, the join LokiClient.Push returns when the body cannot be read, a
\* join without a status error, and wrappings.
P500 == At(PushStatusError(500, StatusOf(500), ""), 1)
P404 == At(PushStatusError(404, StatusOf(404), "entry out of order"), 2)
Other == At(StageError("encode"), 3)
JoinedRead == At(JoinError(At(PushStatusError(500, StatusOf(500), NoBody), 4),
                           At(StageError("read"), 5)), 6)
JoinedOthers == At(JoinError(Other, At(StageError("read"), 5)), 7)
Wrapped == At(WrapError(P404), 8)
WrappedOther == At(WrapError(Other), 9)
\* &PushStatusError{}
Fresh == At(PushStatusError(0, << >>, NoBody), 10)

IsReceivers == {P500, P404, Fresh, NilPushStatusError}
IsTargets == {NilError, NilPushStatusError, Fresh, P500, P404, Other, JoinedRead}
IsErrs == {NilError, P500, P404, NilPushStatusError, Other, JoinedRead, JoinedOthers,
           Wrapped, WrappedOther}
ErrorsIsTargets == {Fresh, NilError, Other}

IsUpd(call) ==
    /\ isCalls' = Append(isCalls, call)
    /\ UNCHANGED <<backoffs, clients, deliveries, held, lokiPush, joined, sink,
                   server, writer, derived>>

\* e.Is(target)
CallIs(e, target) ==
    IsUpd([fn |-> "Is", err |-> e, target |-> target, result |-> Is(e, target)])

\* errors.Is(err, target), as in the loop condition of the retrying client
CallErrorsIs(err, target) ==
    IsUpd([fn |-> "errors.Is", err |-> err, target |-> target,
           result |-> ErrorsIs(err, target)])

IsNext ==
    \/ \E e \in IsReceivers, target \in IsTargets :
          Len(isCalls) < MaxIsCalls /\ CallIs(e, target)
    \/ \E err \in IsErrs, target \in ErrorsIsTargets :
          Len(isCalls) < MaxIsCalls /\ CallErrorsIs(err, target)

IsInit ==
    /\ RetryIdle
    /\ PartsIdle

\* A program that asks Is and errors.Is about the errors it holds.
IsSpec == IsInit /\ [][IsNext]_vars

\* ------------------------------------------------------ JoinedHandler, steps
JoinUpd(j) ==
    /\ joined' = j
    /\ UNCHANGED <<backoffs, clients, deliveries, held, lokiPush, sink, more>>

\* part_008:45-49  handler.WithHandlers(h): append
JoinWithHandlers(ret) ==
    /\ joined.pc = "idle"
    /\ JoinUpd([joined EXCEPT
                   !.handlers = Append(@, [id |-> joined.added + 1, ret |-> ret]),
                   !.added = @ + 1])

\* part_008:37-41  handler.WithConcurrency(concurrent)
JoinWithConcurrency(concurrent) ==
    /\ joined.pc = "idle"
    /\ joined.concurrent # concurrent
    /\ JoinUpd([joined EXCEPT !.concurrent = concurrent])

\* part_008:70-73  Handle is called: handleConcurrent, or the loop
JoinHandleCall ==
    /\ joined.pc = "idle"
    /\ JoinUpd([joined EXCEPT
                   !.pc = IF joined.concurrent THEN "setup" ELSE "loop",
                   !.i = 1, !.invoked = << >>, !.result = -1,
                   !.ranged = joined.handlers, !.viaLoop = ~joined.concurrent,
                   !.g = << >>, !.wg = 0,
                   !.errChan = [cap |-> 0, buf |-> << >>, closed |-> FALSE]])

JoinReturn(j, err) == JoinUpd([j EXCEPT !.pc = "idle", !.result = err, !.calls = @ + 1])

\* part_008:75-76, 82  the loop reaches handler i and calls its Handle, or ends
JoinSeqInvoke ==
    /\ joined.pc = "loop"
    /\ IF joined.i > Len(joined.handlers)
       THEN JoinReturn(joined, 0)
       ELSE JoinUpd([joined EXCEPT !.pc = "inHandle",
                                   !.invoked = Append(@, joined.handlers[joined.i].id)])

\* A loop that goes on after an error and returns the last one.
JoinSeqReturnGoesOn ==
    /\ joined.pc = "inHandle"
    /\ LET h == joined.handlers[joined.i]
       IN  IF joined.i = Len(joined.handlers) /\ h.ret = "err"
           THEN JoinReturn(joined, h.id)
           ELSE JoinUpd([joined EXCEPT !.pc = "loop", !.i = @ + 1])

\* part_008:76-79  h.Handle returns; if err != nil { return err }
JoinSeqReturn ==
    /\ joined.pc = "inHandle"
    /\ LET h == joined.handlers[joined.i]
       IN  IF h.ret = "err"
           THEN JoinReturn(joined, h.id)
           ELSE JoinUpd([joined EXCEPT !.pc = "loop", !.i = @ + 1])

\* handleConcurrent with an unbuffered error channel.
JoinSetupUnbuffered ==
    /\ joined.pc = "setup"
    /\ JoinUpd([joined EXCEPT
                   !.pc = "wait",
                   !.wg = Len(joined.handlers),
                   !.errChan = [cap |-> 0, buf |-> << >>, closed |-> FALSE],
                   !.g = [k \in 1 .. Len(joined.handlers) |-> [pc |-> "go", n |-> 0]]])

\* part_008:120-135  wg.Add(len), errChan := make(chan error, len), one
\* goroutine started for every handler
JoinSetup ==
    /\ joined.pc = "setup"
    /\ JoinUpd([joined EXCEPT
                   !.pc = "wait",
                   !.wg = Len(joined.handlers),
                   !.errChan = [cap |-> Len(joined.handlers), buf |-> << >>,
                                closed |-> FALSE],
                   !.g = [k \in 1 .. Len(joined.handlers) |-> [pc |-> "go", n |-> 0]]])

\* part_008:130  goroutine k calls joinee.Handle(ctx, record.Clone())
JoinGoHandle(k) ==
    /\ joined.g[k].pc = "go"
    /\ JoinUpd([joined EXCEPT !.g[k] = [pc |-> "inHandle", n |-> @.n + 1]])

\* part_008:130-131  the handler returns: to the send, or to the end
JoinGoReturn(k) ==
    /\ joined.g[k].pc = "inHandle"
    /\ JoinUpd([joined EXCEPT
                   !.g[k].pc = IF joined.handlers[k].ret = "err" THEN "send" ELSE "exit"])

\* part_008:132  errChan <- err, when the buffer has room
JoinGoSend(k) ==
    /\ joined.g[k].pc = "send"
    /\ Len(joined.errChan.buf) < joined.errChan.cap
    /\ JoinUpd([joined EXCEPT !.g[k].pc = "exit",
                               !.errChan.buf = Append(@, joined.handlers[k].id)])

\* part_008:128  the deferred wg.Done()
JoinGoDone(k) ==
    /\ joined.g[k].pc = "exit"
    /\ JoinUpd([joined EXCEPT !.g[k].pc = "done", !.wg = @ - 1])

\* part_008:137-138  wg.Wait() returns; close(errChan)
JoinWaitClose ==
    /\ joined.pc = "wait"
    /\ joined.wg = 0
    /\ JoinUpd([joined EXCEPT !.pc = "recv", !.errChan.closed = TRUE])

\* part_008:140  return <-errChan
JoinRecv ==
    /\ joined.pc = "recv"
    /\ LET c == joined.errChan
       IN  \/ /\ c.buf # << >>
              /\ JoinReturn([joined EXCEPT !.errChan.buf = Tail(@)], Head(c.buf))
           \/ /\ c.buf = << >>
              /\ c.closed
              /\ JoinReturn(joined, 0)

JoinNext ==
    \/ \E ret \in {"nil", "err"} :
          Len(joined.handlers) < MaxHandlers /\ JoinWithHandlers(ret)
    \/ \E b \in BOOLEAN : JoinWithConcurrency(b)
    \/ joined.calls < MaxHandleCalls /\ JoinHandleCall
    \/ JoinSeqInvoke
    \/ JoinSeqReturn
    \/ JoinSetup
    \/ \E k \in DOMAIN joined.g : JoinGoHandle(k)
    \/ \E k \in DOMAIN joined.g : JoinGoReturn(k)
    \/ \E k \in DOMAIN joined.g : JoinGoSend(k)
    \/ \E k \in DOMAIN joined.g : JoinGoDone(k)
    \/ JoinWaitClose
    \/ JoinRecv

\* NewJoinedHandler with no handler or with one.
JoinInit ==
    /\ RetryIdle
    /\ lokiPush = IdlePush
    /\ sink = NewLokiSink(0)
    /\ MoreIdle
    /\ \E hs \in { << >>, << [id |-> 1, ret |-> "nil"] >>, << [id |-> 1, ret |-> "err"] >> } :
          joined = NewJoinedHandler(hs)

\* One JoinedHandler: handlers are added and concurrency is switched between
\* Handle calls, made one at a time.
JoinSpec == JoinInit /\ [][JoinNext]_vars

\* Any step of a Handle call is taken in the end.
JoinLiveSpec == JoinSpec /\ WF_vars(joined.pc # "idle" /\ JoinNext)

\* ------------------------------------- JoinedHandler.WithAttrs and WithGroup
\* h.WithAttrs(newAttrs) or h.WithGroup(name) of a wrapped handler: the handler
\* with what it was given by which method added to what it carries.
DeriveHandler(h, by, arg) ==
    [id |-> h.id, ret |-> h.ret,
     with |-> (IF "with" \in DOMAIN h THEN h.with ELSE << >>) \o << <<by, arg>> >>]

\* part_008:90-97, 108-112  newHandlers: the derived handlers, appended in the
\* order of handler.handlers
RECURSIVE DeriveHandlers(_, _, _)
DeriveHandlers(hs, by, arg) ==
    IF hs = << >> THEN << >>
    ELSE << DeriveHandler(Head(hs), by, arg) >> \o DeriveHandlers(Tail(hs), by, arg)

\* part_008:99-101, 114-116  return &JoinedHandler{handlers: newHandlers}: the
\* field concurrent is not named and has its zero value.
\* Kept with the result: the method, its argument, and the receiver as it was.
JoinDerive(by, arg) ==
    /\ derived' = Append(derived,
                         [by |-> by, arg |-> arg,
                          from |-> [handlers |-> joined.handlers,
                                    concurrent |-> joined.concurrent],
                          handler |-> [handlers |-> DeriveHandlers(joined.handlers, by, arg),
                                       concurrent |-> FALSE]])
    /\ UNCHANGED <<backoffs, clients, deliveries, held, lokiPush, joined, sink,
                   isCalls, server, writer>>

\* part_008:90-103  handler.WithAttrs(attrs)
JoinWithAttrs(attrs) == JoinDerive("WithAttrs", attrs)

\* part_008:107-117  handler.WithGroup(name)
JoinWithGroup(name) == JoinDerive("WithGroup", name)

JoinDeriveNext ==
    \/ \E ret \in {"nil", "err"} :
          Len(joined.handlers) < MaxHandlers /\ JoinWithHandlers(ret)
    \/ \E b \in BOOLEAN : JoinWithConcurrency(b)
    \/ \E attrs \in { << >>, << <<"k", "v">> >> } :
          Len(derived) < MaxDerived /\ JoinWithAttrs(attrs)
    \/ \E name \in { "", "g" } :
          Len(derived) < MaxDerived /\ JoinWithGroup(name)

\* A JoinedHandler that is given handlers, switched between concurrent and
\* sequential, and asked for derived handlers.
JoinDeriveSpec == JoinInit /\ [][JoinDeriveNext]_vars

\* ----------------------------------------------------------- LokiSink, steps
LevelKey == "level"
ErrorKey == "error"
SourceKey == "source"

Digits == <<"0", "1", "2", "3", "4", "5", "6", "7", "8", "9">>

\* strconv.Itoa, for the levels used here
Itoa(n) == IF n < 0 THEN "-" \o Digits[1 - n] ELSE Digits[n + 1]

\* fmt.Sprint of a key, of a value, or of the error of an Error call
Sprint(x) == IF x = "nil" THEN "<nil>" ELSE x

\* logr.go:251-261  addValuesToLabels: pairs in order, an odd last one dropped
RECURSIVE AddValuesToLabels(_, _)
AddValuesToLabels(labels, keysAndValues) ==
    IF Len(keysAndValues) < 2
    THEN labels
    ELSE AddValuesToLabels(MapSet(labels, Sprint(keysAndValues[1]), Sprint(keysAndValues[2])),
                           SubSeq(keysAndValues, 3, Len(keysAndValues)))

\* logr.go:218-232  newSource: nil when runtime.Caller does not find the frame
NewSource(ok) ==
    IF ok
    THEN [nil |-> FALSE, function |-> "pkg.Caller", file |-> "caller.go", line |-> 52]
    ELSE [nil |-> TRUE, function |-> "", file |-> "", line |-> 0]

\* logr.go:235-247  source.addToLabels: an assignment to an entry of the nil
\* map panics
AddToLabels(source, labels) ==
    LET writes == {p \in { <<SourceKey \o "_function", source.function>>,
                            <<SourceKey \o "_file", source.file>> } : p[2] # ""}
                  \cup (IF source.line # 0
                        THEN { <<SourceKey \o "_line", Itoa(source.line \div 10) \o Itoa(source.line % 10)>> }
                        ELSE {})
    IN  IF writes = {}
        THEN [panic |-> FALSE, labels |-> labels]
        ELSE IF labels.nil
             THEN [panic |-> TRUE, labels |-> labels]
             ELSE [panic |-> FALSE,
                   labels |-> [labels EXCEPT
                                 !.kv = {p \in @ : \A w \in writes : w[1] # p[1]} \cup writes]]

\* logr.go:174-206  createEntry: labels is the clone that gets the level,
\* metadata stays the nil map unless there are two or more keys and values,
\* and the entry's Labels are sink.labels.  The timestamp is left out.
CreateEntry(s, level, msg, keysAndValues, ok) ==
    LET labels == MapSet(s.labels, LevelKey, Itoa(level))
        metadata == IF Len(keysAndValues) > 1
                    THEN AddValuesToLabels(MakeMap, keysAndValues)
                    ELSE UnsetMap
        source == NewSource(ok)
        added == IF source.nil
                 THEN [panic |-> FALSE, labels |-> metadata]
                 ELSE AddToLabels(source, metadata)
    IN  [panic |-> added.panic,
         entry |-> [Labels |-> s.labels.kv, Line |-> msg,
                    StructuredMetadata |-> added.labels]]

\* logr.go:102-104
Enabled(s, level) == level <= s.level

SinkUpd(s) ==
    /\ sink' = s
    /\ UNCHANGED <<backoffs, clients, deliveries, held, lokiPush, joined, more>>

\* What a call of the sink's Info or Error does with the entry it creates:
\* Push it (logr.go:110, 118), unless createEntry panicked.
SinkLog(call, level, keysAndValues) ==
    LET made == CreateEntry(sink, level, "msg", keysAndValues, call.ok)
    IN  IF made.panic
        THEN SinkUpd([sink EXCEPT !.panicked = TRUE,
                                  !.calls = Append(@, [call EXCEPT !.panic = TRUE])])
        ELSE SinkUpd([sink EXCEPT !.pushed = Append(@, made.entry),
                                  !.calls = Append(@, [call EXCEPT !.entries = <<made.entry>>])])

\* A log call as the history keeps it.
LogCall(fn, level, err, keysAndValues, ok) ==
    [fn |-> fn, level |-> level, err |-> err, keysAndValues |-> keysAndValues,
     ok |-> ok, labels |-> sink.labels, entries |-> << >>, panic |-> FALSE]

\* logger.V(level).Info("msg", keysAndValues...): logr calls the sink's Info
\* (logr.go:108-111) with the logger's level if the sink is Enabled for it.
LoggerInfo(level, keysAndValues, ok) ==
    /\ ~sink.panicked
    /\ LET call == LogCall("Info", level, "nil", keysAndValues, ok)
       IN  IF Enabled(sink, level)
           THEN SinkLog(call, level, keysAndValues)
           ELSE SinkUpd([sink EXCEPT !.calls = Append(@, call)])

\* logger.V(level).Error(err, "msg", keysAndValues...): logr calls the sink's
\* Error (logr.go:115-119) whatever the level.
LoggerError(level, err, keysAndValues, ok) ==
    /\ ~sink.panicked
    /\ SinkLog(LogCall("Error", level, err, keysAndValues, ok), -1,
               keysAndValues \o <<ErrorKey, err>>)

\* logger = logger.WithValues(key, value)  (logr.go:125-139)
LoggerWithValues(key, value) ==
    /\ ~sink.panicked
    /\ ~MapHas(sink.labels, key)
    /\ SinkUpd([sink EXCEPT !.labels = MapSet(@, Sprint(key), Sprint(value))])

\* The verbosities of the tests, the keys and values of a call, the errors.
Verbosities == {0, 1}
KeysAndValues == { << >>, <<"k">>, <<"k", "v">> }
Errs == {"nil", "boom"}

SinkNext ==
    \/ \E level \in Verbosities, kvs \in KeysAndValues, ok \in BOOLEAN :
          Len(sink.calls) < MaxLogCalls /\ LoggerInfo(level, kvs, ok)
    \/ \E level \in Verbosities, err \in Errs, kvs \in KeysAndValues, ok \in BOOLEAN :
          Len(sink.calls) < MaxLogCalls /\ LoggerError(level, err, kvs, ok)
    \/ LoggerWithValues("app", "x")

\* logger := New(client, 0), the client keeping what it is given.
SinkInit ==
    /\ RetryIdle
    /\ lokiPush = IdlePush
    /\ joined = NewJoinedHandler(<< >>)
    /\ sink = NewLokiSink(0)
    /\ MoreIdle

SinkSpec == SinkInit /\ [][SinkNext]_vars

\* ------------------------------------------------------------------ claims
Closed(D) == D.errChan.closed

\* The configured backoff of client c: the value of retryClient.backoff.
Template(c) == backoffs[clients[c].backoff]

\* Number of inner.Push calls of delivery D that have returned: those that
\* returned a status error, and the one that ended the loop.
Returned(D) == D.fails + (IF D.pc \in {"send", "close", "done"} THEN 1 ELSE 0)

\* Number of inner.Push calls of delivery D started and not yet returned.
InFlight(D) == D.attempts - Returned(D)

\* The configured backoff of the client of delivery D has no ceiling.
NoCeiling(D) == backoffs[clients[D.client].backoff].Max = 0

\* C1: when the cloned backoff's Next returns the closed channel after a push
\* attempt that failed with a status error, the goroutine sends that error on
\* the outcome channel exactly once and closes the channel.
C1_ExhaustionReported ==
    \A d \in Ids :
        deliveries[d].pc = "stopped" =>
            deliveries[d].sent = << "status" >> /\ Closed(deliveries[d])

\* C2: on a client without ceiling and with a context that is never cancelled, a
\* delivery whose inner client fails k times with a status error and then
\* succeeds ends with the channel closed, nothing sent and exactly k+1 push
\* attempts made (k is the delivery's count of status errors).
C2_RetryUntilSuccess ==
    /\ [](\A d \in Ids :
            deliveries[d].err = "nil" /\ deliveries[d].pc \in {"send", "close", "done"} =>
                /\ deliveries[d].attempts = deliveries[d].fails + 1
                /\ deliveries[d].sent = <<>>)
    /\ \A d \in 1 .. MaxDeliveries :
            (d \in Ids /\ NoCeiling(deliveries[d]))
                ~> (d \in Ids /\ \/ deliveries[d].ctxDone
                                 \/ deliveries[d].err = "other"
                                 \/ /\ deliveries[d].pc = "done"
                                    /\ deliveries[d].err = "nil"
                                    /\ Closed(deliveries[d])
                                    /\ deliveries[d].sent = <<>>
                                    /\ deliveries[d].attempts = deliveries[d].fails + 1)

C2_Witness ==
    \E d \in Ids :
        /\ NoCeiling(deliveries[d])
        /\ ~deliveries[d].ctxDone
        /\ deliveries[d].pc = "done"
        /\ deliveries[d].err = "nil"
        /\ deliveries[d].fails = MaxFail
        /\ deliveries[d].attempts = MaxFail + 1

\* C3: when the first push attempt returns an error that is no status error,
\* that delivery makes exactly one push attempt, never calls Next, sends that
\* error and nothing else, and once it is done the channel is closed and the
\* caller receives the error exactly once.
C3_TerminalErrorNotRetried ==
    \A d \in Ids :
        LET D == deliveries[d]
        IN  D.fails = 0 /\ D.err = "other" =>
                /\ D.attempts = 1
                /\ D.nexts = 0
                /\ D.pc \in {"send", "close", "done"}
                /\ D.sent = IF D.pc = "send" THEN <<>> ELSE << "other" >>
                /\ D.pc = "done" => Closed(D) /\ D.got \o D.errChan.buf = << "other" >>

C3_Witness ==
    \E d \in Ids :
        /\ deliveries[d].fails = 0
        /\ deliveries[d].err = "other"
        /\ deliveries[d].pc = "done"
        /\ deliveries[d].got = << "other" >>
        /\ deliveries[d].sawClose

\* C4: Push can return as soon as it has called PushWithHandle, wherever the
\* goroutine and the inner client are, and what it returns is nil whatever the
\* delivery ends with.
C4_PushReturnsNilAtOnce ==
    \A d \in Ids :
        deliveries[d].viaPush =>
            /\ deliveries[d].ret \in {"pending", "nil"}
            /\ deliveries[d].ret = "pending" => ENABLED PushReturn(d)

C4_Witness ==
    \E d \in Ids :
        /\ deliveries[d].viaPush /\ deliveries[d].ret = "nil"
        /\ deliveries[d].pc = "push" /\ deliveries[d].attempts = 1

\* C5: whenever the goroutine of a delivery has stopped (after success, after a
\* terminal failure, after exhaustion or after cancellation) the outcome channel
\* is closed.
C5_ClosedWhenStopped ==
    \A d \in Ids : Terminated(deliveries[d]) => Closed(deliveries[d])

\* C6: once the select has taken the cancellation branch, the delivery makes no
\* further step: no push attempt, no send, no close; nothing was sent on the
\* channel and it is open.
C6_CancelAbandons ==
    [][\A d \in Ids :
          /\ deliveries'[d].pc = "cancelled" =>
                 /\ deliveries'[d].sent = <<>>
                 /\ deliveries'[d].errChan = NewErrChan
                 /\ deliveries'[d].closes = 0
          /\ deliveries[d].pc = "cancelled" =>
                 /\ deliveries'[d].pc = "cancelled"
                 /\ deliveries'[d].attempts = deliveries[d].attempts
                 /\ deliveries'[d].nexts = deliveries[d].nexts]_vars

C6_Witness ==
    \E d \in Ids : deliveries[d].pc = "cancelled" /\ deliveries[d].cancelAt = "wait"

\* C7: once the context has been cancelled during a backoff wait, no push
\* attempt of that delivery starts.
C7_NoPushAfterCancelInWait ==
    [][\A d \in Ids :
          deliveries[d].cancelAt = "wait" =>
              deliveries'[d].attempts = deliveries[d].attempts]_vars

\* C8 as stated: a cancellation that fires during a push attempt or during a
\* backoff wait makes the loop abandon without reporting: nothing is sent and
\* the channel is not closed.
C8_AnyCancelAbandons ==
    \A d \in Ids :
        deliveries[d].cancelAt \in {"push", "wait"} =>
            deliveries[d].sent = <<>> /\ ~Closed(deliveries[d])

\* C8 amended: the loop abandons on cancellation only in the select of a backoff
\* wait, hence only after a push attempt that returned a status error; a push
\* attempt that returned nil or another error is followed by the report,
\* cancelled context or not.
C8_CancelSeenOnlyInSelect ==
    \A d \in Ids :
        LET D == deliveries[d]
        IN  /\ D.pc = "cancelled" => D.ctxDone /\ IsPushStatusError(D.err)
            /\ (D.attempts > 0 /\ D.pc # "push" /\ ~IsPushStatusError(D.err)) =>
                   D.pc \in {"send", "close", "done"}

C8_Witness ==
    \E d \in Ids :
        /\ deliveries[d].cancelAt = "push"
        /\ deliveries[d].pc = "done"
        /\ Closed(deliveries[d])

\* C9: at most one value is ever sent on the outcome channel, it is a non-nil
\* error, the channel is closed at most once, nothing is sent after the close,
\* and after a success the channel is closed with nothing sent.
C9_OneErrorOneClose ==
    \A d \in Ids :
        LET D == deliveries[d]
        IN  /\ Len(D.sent) <= 1
            /\ \A i \in 1 .. Len(D.sent) : D.sent[i] # "nil"
            /\ D.closes <= 1
            /\ ~D.sentAfterClose
            /\ Closed(D) <=> D.closes = 1
            /\ (D.pc = "done" /\ D.err = "nil") => Closed(D) /\ D.sent = <<>>

C9_Witness ==
    \E d \in Ids :
        /\ deliveries[d].pc = "done"
        /\ deliveries[d].sent = << "other" >>
        /\ deliveries[d].fails > 0

\* C10: every delivery holds a backoff object of its own, different from the
\* client's and from every other delivery's, and a Next call made by one
\* delivery leaves the backoff object of every other delivery as it was.
C10_OwnBackoff ==
    [][\A d, e \in Ids :
          (d # e /\ deliveries'[d].nexts # deliveries[d].nexts) =>
              /\ deliveries[d].backoff # deliveries[e].backoff
              /\ deliveries[d].backoff # clients[deliveries[d].client].backoff
              /\ backoffs'[deliveries[e].backoff] = backoffs[deliveries[e].backoff]]_vars

C10_Witness ==
    \E d, e \in Ids :
        /\ d # e
        /\ deliveries[d].pc = "select" /\ deliveries[e].pc = "select"
        /\ deliveries[d].nexts = 2 /\ deliveries[e].nexts = 1
        /\ backoffs[deliveries[d].backoff].Delay # backoffs[deliveries[e].backoff].Delay

\* C11: no step of any delivery changes a client or the Delay, Factor and Max of
\* a client's configured backoff, and the backoff a new delivery starts with
\* equals its client's configured backoff: every delivery on one client starts
\* from the same delay sequence.
C11_TemplateUnchanged ==
    [][/\ \A c \in 1 .. Len(clients) :
             /\ clients'[c] = clients[c]
             /\ Template(c)' = Template(c)
       /\ \A d \in 1 .. Len(deliveries') :
             d \notin Ids =>
                 backoffs'[deliveries'[d].backoff] = Template(deliveries'[d].client)]_vars

C11_Witness ==
    \E d, e \in Ids :
        /\ deliveries[d].viaPush /\ ~deliveries[e].viaPush
        /\ deliveries[d].client = deliveries[e].client
        /\ deliveries[d].nexts = 2 /\ deliveries[e].nexts = 1
        /\ deliveries[d].waits[1] = deliveries[e].waits[1]
        /\ Template(deliveries[d].client) = ExponentialBackoff(0, 0, 0)

\* C12: a WithBackoff call on client c with backoff b adds a client that has
\* c's inner client and a backoff object of its own, not b, whose Delay, Factor
\* and Max are b's at the call; and no step, a later Next call on b included,
\* changes an existing client or its configured backoff.
C12_WithBackoffClones ==
    [][/\ \A c \in 1 .. Len(clients), h \in DOMAIN held :
             CallWithBackoff(c, h) =>
                 LET n == clients'[Len(clients) + 1]
                 IN  /\ Len(clients') = Len(clients) + 1
                     /\ n.inner = clients[c].inner
                     /\ n.backoff # held[h].ref
                     /\ n.backoff \notin 1 .. Len(backoffs)
                     /\ backoffs'[n.backoff] = Obj(h)
                     /\ Obj(h)' = Obj(h)
       /\ \A c \in 1 .. Len(clients) :
             /\ clients'[c] = clients[c]
             /\ Template(c)' = Template(c)]_vars

C12_Witness ==
    \E h \in DOMAIN held :
        /\ Len(clients) = 2
        /\ clients[2].inner = clients[1].inner
        /\ held[h].parent = 0
        /\ Template(2) = held[h].origin
        /\ Len(held[h].out) = 2
        /\ Obj(h) # Template(2)
        /\ Template(1) # Template(2)

\* C13: with deliveries running on the client made by NewRetryClient and on the
\* client derived from it by WithBackoff, the original client keeps the zero
\* backoff, each of its deliveries has its own backoff object, and the waits
\* between its attempts are 100ms, 200ms, 400ms, ..., whatever backoff the
\* derived client was given and whatever its deliveries do.
C13_OriginalKeepsDefaults ==
    /\ Template(1) = ExponentialBackoff(0, 0, 0)
    /\ \A d \in Ids :
          LET D == deliveries[d]
          IN  D.client = 1 =>
                  /\ Len(D.waits) = D.nexts
                  /\ D.pc # "stopped"
                  /\ \A i \in 1 .. Len(D.waits) :
                        D.waits[i] = 100 * Millisecond * 2 ^ (i - 1)
                  /\ \A e \in Ids : e # d => deliveries[e].backoff # D.backoff

C13_Witness ==
    \E d, e \in Ids :
        /\ deliveries[d].client = 1 /\ deliveries[e].client = 2
        /\ deliveries[d].pc = "select" /\ deliveries[e].pc = "select"
        /\ deliveries[d].waits = << 100 * Millisecond, 200 * Millisecond, 400 * Millisecond >>
        /\ deliveries[e].waits = << 500 * Millisecond, 1000 * Millisecond >>

\* C14: a delivery never has more than one inner.Push call in flight, and it
\* has one exactly while its goroutine is inside inner.Push: an attempt starts
\* only when every earlier attempt of the same delivery has returned.
C14_OneAttemptInFlight ==
    \A d \in Ids :
        LET D == deliveries[d]
        IN  /\ InFlight(D) \in {0, 1}
            /\ InFlight(D) = 1 <=> D.pc = "push"

\* Two deliveries are inside inner.Push at once, one of them in its third attempt.
C14_Witness ==
    \E d, e \in Ids :
        /\ d # e
        /\ deliveries[d].pc = "push" /\ deliveries[e].pc = "push"
        /\ deliveries[d].attempts = 3 /\ Returned(deliveries[d]) = 2
        /\ InFlight(deliveries[e]) = 1

\* C15: when a backoff has a nonzero Max and a Delay above it, no step changes
\* its Delay, Factor or Max, and a Next call on it returns the closed channel;
\* so it stays in that condition, and whatever Next returned after a closed
\* channel is a closed channel again.
C15_StopIsFinal ==
    [][\A r \in DOMAIN held :
          (Obj(r).Max # 0 /\ Obj(r).Delay > Obj(r).Max) =>
              /\ Obj(r)' = Obj(r)
              /\ Len(held'[r].out) > Len(held[r].out) =>
                     ~held'[r].out[Len(held'[r].out)].ok
              /\ \A i \in 1 .. Len(held[r].out), j \in 1 .. Len(held'[r].out) :
                     (i < j /\ ~held[r].out[i].ok) => ~held'[r].out[j].ok]_vars

C15_Witness ==
    \E r \in DOMAIN held :
        /\ Obj(r).Max # 0 /\ Obj(r).Delay > Obj(r).Max
        /\ Len(held[r].out) = 4
        /\ held[r].out[2].ok
        /\ ~held[r].out[3].ok /\ ~held[r].out[4].ok

\* The caller's backoffs that C16 is about: made with a factor above 1, no
\* ceiling and a positive Delay.
Growing == { r \in DOMAIN held : /\ held[r].origin.Factor > FactorDen
                                 /\ held[r].origin.Max = 0
                                 /\ held[r].origin.Delay > 0 }

\* w * f is a whole number of nanoseconds.
Whole(w, f) == ((w % FactorDen) * f) % FactorDen = 0

\* C16 as stated: for a backoff with factor f > 1 and no ceiling, the first Next
\* call returns Delay0, every later call returns exactly f times what the call
\* before it returned, which is more than that, and no call returns the closed
\* channel.
C16_ExactRatio ==
    \A r \in Growing :
        LET out == held[r].out
            f == held[r].origin.Factor
        IN  /\ \A i \in 1 .. Len(out) : out[i].ok
            /\ Len(out) >= 1 => out[1].wait = held[r].origin.Delay
            /\ \A i \in 2 .. Len(out) :
                  /\ Whole(out[i - 1].wait, f)
                  /\ out[i].wait = (out[i - 1].wait \div FactorDen) * f
                                     + ((out[i - 1].wait % FactorDen) * f) \div FactorDen
                  /\ out[i].wait > out[i - 1].wait

\* C16, amended: for such a backoff the first Next call returns Delay0 and every
\* later call returns f times what the call before it returned, truncated to a
\* whole nanosecond; the values never decrease, they increase from a call to
\* the next when the value is at least 1/(f-1) nanoseconds, the current delay
\* is the value the next call will return and neither Factor nor Max changes,
\* and no call returns the closed channel.
C16_TruncatedRatio ==
    \A r \in Growing :
        LET out == held[r].out
            f == held[r].origin.Factor
            n == Len(out)
        IN  /\ \A i \in 1 .. n : out[i].ok
            /\ n >= 1 => out[1].wait = held[r].origin.Delay
            /\ \A i \in 2 .. n :
                  LET w == out[i - 1].wait
                      q == (w \div FactorDen) * f + ((w % FactorDen) * f) \div FactorDen
                  IN  /\ out[i].wait = q
                      /\ out[i].wait >= w
                      /\ w >= (f - 1) \div (f - FactorDen) => out[i].wait > w
            /\ Obj(r).Factor = f /\ Obj(r).Max = 0
            /\ Obj(r).Delay >= (IF n = 0 THEN held[r].origin.Delay ELSE out[n].wait)

C16_Witness ==
    \E r \in Growing :
        /\ Len(held[r].out) = 4
        /\ held[r].out[1].wait = 100 * Millisecond
        /\ held[r].out[4].wait = 337500 * 1000
        /\ Obj(r).Delay = 506250 * 1000

\* What Next returns on a wait of ms milliseconds, and on the closed channel.
Wait(ms) == [ok |-> TRUE, wait |-> ms * Millisecond]
Stop == [ok |-> FALSE, wait |-> 0]

\* C17: a backoff made with Delay and Factor zero and Max one second returns
\* from its Next calls, in order, 100ms, 200ms, 400ms, 800ms and then the
\* closed channel.
C17_ZeroValueSequence ==
    \A r \in DOMAIN held :
        held[r].origin = ExponentialBackoff(0, 0, 1000 * Millisecond) =>
            \A i \in 1 .. Len(held[r].out) :
                i <= 5 => held[r].out[i] = << Wait(100), Wait(200), Wait(400), Wait(800), Stop >>[i]

C17_Witness ==
    \E r \in DOMAIN held :
        /\ held[r].origin = ExponentialBackoff(0, 0, 1000 * Millisecond)
        /\ held[r].out = << Wait(100), Wait(200), Wait(400), Wait(800), Stop >>
        /\ Obj(r) = ExponentialBackoff(1600 * Millisecond, 2 * FactorDen, 1000 * Millisecond)

\* C18: the caller's backoff variables point to different objects, a Clone
\* call leaves its receiver as it was, and a Next call through one variable
\* leaves the Delay, Factor and Max behind every other variable as they were:
\* Next on a clone does not touch the original, nor Next on the original the
\* clone.
C18_CloneIndependent ==
    [][/\ \A h, g \in DOMAIN held :
             h # g =>
                 /\ held[h].ref # held[g].ref
                 /\ Len(held'[h].out) > Len(held[h].out) => Obj(g)' = Obj(g)
       /\ \A h \in DOMAIN held : CallClone(h) => Obj(h)' = Obj(h)]_vars

C18_Witness ==
    \E b, c \in DOMAIN held :
        /\ held[c].parent = b
        /\ held[c].at = 1
        /\ Len(held[c].out) = 2
        /\ Len(held[b].out) = 2
        /\ held[c].out[2].ok /\ held[b].out[2].ok
        /\ Obj(c) # held[c].origin /\ Obj(b) # held[c].origin

\* C19: a clone has the Delay, Factor and Max its original had when Clone was
\* called, and made after n Next calls on the original it returns from its
\* i-th Next call what the original returns from its (n+i)-th.
C19_CloneKeepsProgress ==
    \A c \in DOMAIN held :
        held[c].parent # 0 =>
            LET b == held[c].parent
                n == held[c].at
            IN  /\ n <= Len(held[b].out)
                /\ Len(held[b].out) = n => held[c].origin = Obj(b)
                /\ Len(held[c].out) = 0 => Obj(c) = held[c].origin
                /\ \A i \in 1 .. Len(held[c].out) :
                      n + i <= Len(held[b].out) => held[c].out[i] = held[b].out[n + i]

\* A clone made after one Next call on a fresh backoff starts from the second
\* value of the original, not from the first.
C19_Witness ==
    \E c \in DOMAIN held :
        /\ held[c].parent # 0
        /\ held[held[c].parent].parent = 0
        /\ held[c].at = 1
        /\ Len(held[c].out) = 1
        /\ Len(held[held[c].parent].out) = 3
        /\ held[c].out[1].ok
        /\ held[c].out[1] # held[held[c].parent].out[1]
        /\ held[c].origin # held[held[c].parent].origin

\* Delivery D is on a client as NewRetryClient makes it, its context is not
\* cancelled and every inner.Push call of it that has returned returned a
\* status error.
OnlyStatusErrors(D) ==
    /\ Template(D.client) = ExponentialBackoff(0, 0, 0)
    /\ ~D.ctxDone
    /\ Returned(D) = D.fails

\* C20: on a client as NewRetryClient makes it (Max is zero), a delivery that is
\* not cancelled and whose inner client has answered with status errors only
\* has never got the closed channel from Next, has waited 100ms, 200ms, ...
\* after its failures, has reported nothing and has not ended; and it goes on
\* to further push attempts until it has made MaxFail + 1 of them, unless the
\* context is cancelled or the inner client answers otherwise.
C20_NeverExhausted ==
    /\ [](\A d \in Ids :
            LET D == deliveries[d]
            IN  OnlyStatusErrors(D) =>
                    /\ D.pc \in {"go", "push", "select"}
                    /\ D.timer # "closed"
                    /\ D.nexts = D.fails /\ Len(D.waits) = D.fails
                    /\ \A i \in 1 .. Len(D.waits) :
                          D.waits[i] = DefaultInitialDelay * 2 ^ (i - 1)
                    /\ D.sent = <<>> /\ ~Closed(D) /\ D.got = <<>>)
    /\ \A d \in 1 .. MaxDeliveries :
          (d \in Ids /\ OnlyStatusErrors(deliveries[d]))
              ~> (d \in Ids /\ \/ ~OnlyStatusErrors(deliveries[d])
                               \/ deliveries[d].attempts = MaxFail + 1)

C20_Witness ==
    \E d \in Ids :
        /\ OnlyStatusErrors(deliveries[d])
        /\ deliveries[d].fails = MaxFail
        /\ deliveries[d].pc = "push"
        /\ deliveries[d].attempts = MaxFail + 1
        /\ deliveries[d].waits[MaxFail] = DefaultInitialDelay * 2 ^ (MaxFail - 1)
        /\ deliveries[d].sent = <<>> /\ ~Closed(deliveries[d])

\* The response of the i-th returned Push call was received and has a status
\* code from 200 to 299.
Accepted(r) == r.resp # NoResponse /\ r.resp.StatusCode \in 200 .. 299

\* C21 as stated: Push returns nil exactly when a response was received and its
\* status code is in [200, 300); for every other response it returns a
\* *PushStatusError with the response's status code, status text and body; and
\* when no response was received it returns an error that is no PushStatusError.
C21_StatusErrorWithBody ==
    \A i \in 1 .. Len(lokiPush.returned) :
        LET r == lokiPush.returned[i]
        IN  /\ r.err = NilError <=> Accepted(r)
            /\ (r.resp # NoResponse /\ ~Accepted(r)) =>
                  r.err = PushStatusError(r.resp.StatusCode, r.resp.Status, r.resp.Body)
            /\ r.resp = NoResponse =>
                  r.err.kind = "other" /\ ~MatchesPushStatusError(r.err)

\* C21, amended: as stated, except that for a response outside [200, 300) whose
\* body cannot be read Push returns the join of a *PushStatusError that has the
\* status code and status text but no body with the read error, an error that
\* is no *PushStatusError itself but matches one under errors.Is.
C21_StatusErrorOrJoin ==
    \A i \in 1 .. Len(lokiPush.returned) :
        LET r == lokiPush.returned[i]
        IN  /\ r.err = NilError <=> Accepted(r)
            /\ (r.resp # NoResponse /\ ~Accepted(r)) =>
                  /\ MatchesPushStatusError(r.err)
                  /\ \/ r.err = PushStatusError(r.resp.StatusCode, r.resp.Status,
                                                r.resp.Body)
                     \/ /\ r.err.kind = "join"
                        /\ r.err.errs[1] = PushStatusError(r.resp.StatusCode,
                                                           r.resp.Status, NoBody)
                        /\ r.err.errs[2] = StageError("read")
            /\ r.resp = NoResponse =>
                  r.err.kind = "other" /\ ~MatchesPushStatusError(r.err)
            /\ ~lokiPush.open \/ lokiPush.pc \in {"check", "read"}

C21_Witness ==
    /\ Len(lokiPush.returned) = 2
    /\ lokiPush.returned[1].err.kind = "join"
    /\ lokiPush.returned[1].resp.StatusCode = 300
    /\ lokiPush.returned[2].err = NilError
    /\ lokiPush.returned[2].resp.StatusCode = 299

\* The first handler of hs whose Handle returns an error, 0 if there is none.
FirstErr(hs) ==
    IF \E n \in DOMAIN hs : hs[n].ret = "err"
    THEN CHOOSE n \in DOMAIN hs : hs[n].ret = "err" /\ \A m \in 1 .. n - 1 : hs[m].ret = "nil"
    ELSE 0

\* C22: with concurrency disabled, Handle invokes the handlers one after another
\* in the order they were added (the constructor's first, then those of
\* WithHandlers), every handler before the one being invoked has returned nil,
\* and the call returns the error of the first handler that fails, having
\* invoked no later handler, or nil after invoking them all.
C22_SequentialInOrder ==
    joined.viaLoop =>
        LET hs == joined.ranged
            inv == joined.invoked
        IN  /\ \A n \in DOMAIN hs : hs[n].id = n
            /\ Len(inv) <= Len(hs)
            /\ \A n \in DOMAIN inv : inv[n] = n
            /\ \A n \in DOMAIN inv : n < Len(inv) => hs[n].ret = "nil"
            /\ joined.result # -1 =>
                  IF FirstErr(hs) = 0
                  THEN joined.result = 0 /\ Len(inv) = Len(hs)
                  ELSE joined.result = FirstErr(hs) /\ Len(inv) = FirstErr(hs)

\* A sequential Handle over three handlers, the second and third added by
\* WithHandlers, returned the error of the second and never invoked the third.
C22_Witness ==
    /\ joined.viaLoop
    /\ Len(joined.ranged) = 3
    /\ joined.ranged[1].ret = "nil"
    /\ joined.ranged[2].ret = "err"
    /\ joined.result = 2
    /\ joined.invoked = <<1, 2>>

\* What has to hold of a concurrent Handle at every moment.
ConcurrentSafe ==
    ~joined.viaLoop =>
        LET hs == joined.ranged
        IN  /\ \A k \in DOMAIN joined.g : joined.g[k].n <= 1
            /\ \A k \in DOMAIN joined.g :
                  joined.g[k].pc = "send" => Len(joined.errChan.buf) < joined.errChan.cap
            /\ joined.pc = "recv" => joined.errChan.closed
            /\ (joined.pc = "recv" \/ joined.result # -1) =>
                  /\ DOMAIN joined.g = DOMAIN hs
                  /\ \A k \in DOMAIN hs : joined.g[k].n = 1 /\ joined.g[k].pc = "done"
            /\ joined.result # -1 =>
                  /\ joined.result # 0 <=> \E k \in DOMAIN hs : hs[k].ret = "err"
                  /\ joined.result # 0 =>
                        \E k \in DOMAIN hs : hs[k].ret = "err" /\ hs[k].id = joined.result

\* C23: with concurrency enabled, Handle invokes every handler exactly once
\* whatever the others return, returns only after all of them have returned,
\* no goroutine is blocked on the error channel and the call always returns,
\* and what it returns is an error exactly if some handler returned one.
C23_ConcurrentHandle ==
    /\ []ConcurrentSafe
    /\ (joined.pc # "idle") ~> (joined.pc = "idle")

\* A concurrent Handle over three handlers of which the first and the third
\* fail returned the error of the third, all three having run.
C23_Witness ==
    /\ ~joined.viaLoop
    /\ joined.pc = "idle"
    /\ Len(joined.ranged) = 3
    /\ joined.ranged[1].ret = "err"
    /\ joined.ranged[2].ret = "nil"
    /\ joined.ranged[3].ret = "err"
    /\ joined.result = 3
    /\ \A k \in 1 .. 3 : joined.g[k].n = 1 /\ joined.g[k].pc = "done"

\* C24: on a logger built with New(client, 0), an Info call at a verbosity above
\* the sink's level pushes no entry, an Info call at an enabled level pushes
\* exactly one, and an Error call pushes exactly one at any verbosity.
C24_OneEntryPerEnabledCall ==
    \A n \in DOMAIN sink.calls :
        LET call == sink.calls[n]
        IN  Len(call.entries) =
                IF call.fn = "Info" /\ call.level > sink.level THEN 0 ELSE 1

\* The structured metadata m has the three source keys.
HasSourceKeys(m) ==
    /\ MapHas(m, SourceKey \o "_function")
    /\ MapHas(m, SourceKey \o "_file")
    /\ MapHas(m, SourceKey \o "_line")

\* C25: an entry pushed by Info has as stream labels the sink's labels plus
\* level=<the call's level>; an entry pushed by Error has level=-1 among its
\* labels and error=<the stringified error> in its structured metadata; and
\* every call that logs from a known caller pushes an entry whose metadata
\* has source_function, source_file and source_line, also when it passes no
\* keys and values.
C25_LabelsAndMetadata ==
    \A n \in DOMAIN sink.calls :
        LET call == sink.calls[n]
        IN  /\ \A k \in DOMAIN call.entries :
                  LET e == call.entries[k]
                  IN  IF call.fn = "Info"
                      THEN e.Labels = MapSet(call.labels, LevelKey, Itoa(call.level)).kv
                      ELSE /\ <<LevelKey, "-1">> \in e.Labels
                           /\ <<ErrorKey, Sprint(call.err)>> \in e.StructuredMetadata.kv
            /\ (call.ok /\ (call.fn = "Error" \/ call.level <= sink.level)) =>
                  /\ call.entries # << >>
                  /\ HasSourceKeys(call.entries[1].StructuredMetadata)

\* C26: a push attempt of a delivery other than its first starts only when the
\* attempt before it returned an error matching PushStatusError and the wait
\* that Next handed out for it has elapsed; one attempt starts at a time; and
\* once an attempt has returned nil or another error the delivery goes to its
\* report and starts no further attempt.
C26_RetryOnlyAfterStatusAndWait ==
    [][\A d \in Ids :
          LET D == deliveries[d]
              E == deliveries'[d]
          IN  /\ E.attempts > D.attempts =>
                    /\ E.attempts = D.attempts + 1
                    /\ D.attempts >= 1 =>
                          /\ IsPushStatusError(D.err)
                          /\ D.pc = "select"
                          /\ D.timer = "fired"
                          /\ Len(D.waits) = D.attempts
              /\ (D.pc = "push" /\ E.pc # "push" /\ ~IsPushStatusError(E.err)) =>
                    E.pc = "send"
              /\ D.pc \in {"send", "close", "done", "stopped", "cancelled"} =>
                    /\ E.attempts = D.attempts
                    /\ E.pc \in {"send", "close", "done", "stopped", "cancelled"}
      ]_vars

\* A delivery made three attempts, two of which failed with a status error and
\* were each followed by a wait, and ended with the third returning nil.
C26_Witness ==
    \E d \in Ids :
        /\ deliveries[d].attempts = 3
        /\ deliveries[d].fails = 2
        /\ Len(deliveries[d].waits) = 2
        /\ deliveries[d].err = "nil"
        /\ deliveries[d].pc = "done"

\* The caller's backoffs that C27 is about: Delay and Max are set.
Ceilinged == { r \in DOMAIN held : held[r].origin.Delay # 0 /\ held[r].origin.Max # 0 }

\* The factor a backoff made with factor f multiplies by.
FactorOf(f) == IF f = 0 THEN DefaultFactor ELSE f

\* C27 as stated: for a backoff with Delay d0, factor f and ceiling M all set,
\* the Next calls return as waits exactly the terms d0*f^i that are <= M (each
\* wait is exactly f times the one before, a term equal to M included) and
\* the closed channel from the first term above M on.
C27_ExactTerms ==
    \A r \in Ceilinged :
        LET out == held[r].out
            o == held[r].origin
            f == FactorOf(o.Factor)
        IN  /\ Len(out) >= 1 =>
                  out[1] = IF o.Delay > o.Max THEN Stop ELSE [ok |-> TRUE, wait |-> o.Delay]
            /\ \A i \in 2 .. Len(out) :
                  IF out[i - 1].ok
                  THEN /\ Whole(out[i - 1].wait, f)
                       /\ out[i] = IF MulDuration(out[i - 1].wait, f) > o.Max
                                   THEN Stop
                                   ELSE [ok |-> TRUE, wait |-> MulDuration(out[i - 1].wait, f)]
                  ELSE out[i] = Stop

\* C27, amended: the current delay starts at d0 and after every wait returned
\* becomes f times that wait truncated to a whole nanosecond; a Next call
\* returns the current delay as the wait when it is <= M, a delay equal to M
\* included, and the closed channel when it is > M, from then on for ever.
\* Where no truncation happens the waits are the terms d0*f^i that are <= M.
C27_StrictCeiling ==
    \A r \in Ceilinged :
        LET out == held[r].out
            o == held[r].origin
            f == FactorOf(o.Factor)
            n == Len(out)
        IN  /\ n >= 1 =>
                  out[1] = IF o.Delay > o.Max THEN Stop ELSE [ok |-> TRUE, wait |-> o.Delay]
            /\ \A i \in 2 .. n :
                  IF out[i - 1].ok
                  THEN out[i] = IF MulDuration(out[i - 1].wait, f) > o.Max
                                THEN Stop
                                ELSE [ok |-> TRUE, wait |-> MulDuration(out[i - 1].wait, f)]
                  ELSE out[i] = Stop
            /\ \A i \in 1 .. n : out[i].ok => out[i].wait <= o.Max
            /\ n = 0 => Obj(r).Delay = o.Delay
            /\ (n >= 1 /\ out[n].ok) => Obj(r).Delay = MulDuration(out[n].wait, f)

\* Delay 500ms, Factor 2, Max 1s gave 500ms, then 1s, which is the ceiling
\* itself, then the closed channel.
C27_Witness ==
    \E r \in Ceilinged :
        /\ held[r].origin = ExponentialBackoff(500 * Millisecond, 2 * FactorDen, 1000 * Millisecond)
        /\ held[r].out = << Wait(500), Wait(1000), Stop >>

\* d * 2^n
RECURSIVE Doubled(_, _)
Doubled(d, n) == IF n = 0 THEN d ELSE 2 * Doubled(d, n - 1)

C29_WaitWithinMax ==
    \A r \in DOMAIN held :
        held[r].origin.Max # 0 =>
            \A i \in 1 .. Len(held[r].out) :
                held[r].out[i].ok => held[r].out[i].wait <= held[r].origin.Max

\* The backoffs C30 speaks of: a ceiling is set and the factor is above 1 or unset.
CeilingAndGrowth(b) == b.Max # 0 /\ (b.Factor > FactorDen \/ b.Factor = 0)

\* Those of them whose delay is positive (or unset) and is above the ceiling
\* already or made longer by the multiplication as the code rounds it.
Grows(b) ==
    /\ CeilingAndGrowth(b)
    /\ NextDelay(b) > 0
    /\ \/ NextStops(b)
       \/ MulDuration(NextDelay(b), FactorOf(b.Factor)) > NextDelay(b)

\* The number of waits Next hands out from b on before the closed channel.
RECURSIVE WaitsBeforeStop(_)
WaitsBeforeStop(b) == IF NextStops(b) THEN 0 ELSE 1 + WaitsBeforeStop(NextState(b))

\* C30 as stated: on a client whose backoff has a ceiling and a factor above 1
\* or unset, every delivery comes to an end whatever the inner client
\* answers, a transient failure every time included; it makes at most one
\* push attempt more than it got waits, and exactly 5 when the zero-valued
\* backoff with Max 1s runs out.
C30_AlwaysTerminates ==
    /\ [](\A d \in Ids :
            LET D == deliveries[d]
            IN  CeilingAndGrowth(Template(D.client)) =>
                    /\ D.attempts <= Len(D.waits) + 1
                    /\ (Template(D.client) = ExponentialBackoff(0, 0, 1000 * Millisecond)
                          /\ D.pc = "stopped") => D.attempts = 5)
    /\ \A d \in 1 .. MaxDeliveries :
          (d \in Ids /\ CeilingAndGrowth(Template(deliveries[d].client)))
              ~> (d \in Ids /\ Terminated(deliveries[d]))

\* C30, amended: the same for the backoffs whose delay the multiplication makes
\* longer; with n the number of waits the backoff hands out before the closed
\* channel, a delivery gets at most n waits and makes at most n + 1 push
\* attempts, exactly n + 1, all failed, when the backoff runs out, which is 5
\* for the zero-valued backoff with Max 1s; and every delivery comes to an end.
C30_GrowingTerminates ==
    /\ [](\A d \in Ids :
            LET D == deliveries[d]
                n == WaitsBeforeStop(Template(D.client))
            IN  Grows(Template(D.client)) =>
                    /\ Len(D.waits) <= n
                    /\ D.attempts <= n + 1
                    /\ D.attempts <= Len(D.waits) + 1
                    /\ D.pc = "stopped" => (D.attempts = n + 1 /\ D.fails = n + 1)
                    /\ Template(D.client) = ExponentialBackoff(0, 0, 1000 * Millisecond)
                          => n = 4)
    /\ \A d \in 1 .. MaxDeliveries :
          (d \in Ids /\ Grows(Template(deliveries[d].client)))
              ~> (d \in Ids /\ Terminated(deliveries[d]))

\* A delivery on the zero-valued backoff with Max 1s failed five times, having
\* waited 100ms, 200ms, 400ms and 800ms, and stopped on the closed channel.
C30_Witness ==
    \E d \in Ids :
        /\ Template(deliveries[d].client) = ExponentialBackoff(0, 0, 1000 * Millisecond)
        /\ deliveries[d].pc = "stopped"
        /\ deliveries[d].attempts = 5
        /\ deliveries[d].fails = 5
        /\ deliveries[d].waits = << 100 * Millisecond, 200 * Millisecond,
                                    400 * Millisecond, 800 * Millisecond >>

\* C31: the goroutine is never blocked on its report: when it is at the send
\* the channel's buffer of one is empty and nothing has been sent, when it is
\* at the close the channel is open, whether or not the caller holds the
\* channel or ever receives from it; and a goroutine whose loop has stopped
\* goes on to its end.
C31_ReportNeverBlocks ==
    /\ [](\A d \in Ids :
            LET D == deliveries[d]
            IN  /\ D.pc = "send" =>
                      /\ Len(D.errChan.buf) < ErrChanCap
                      /\ D.sent = <<>>
                      /\ ~Closed(D)
                /\ D.pc = "close" => ~Closed(D) /\ Len(D.sent) <= 1)
    /\ \A d \in 1 .. MaxDeliveries :
          (d \in Ids /\ deliveries[d].pc \in {"send", "close"})
              ~> (d \in Ids /\ deliveries[d].pc = "done")

\* A delivery made by Push, whose channel nobody holds, ended with its error
\* sent and left in the buffer and the channel closed.
C31_Witness ==
    \E d \in Ids :
        /\ deliveries[d].viaPush
        /\ deliveries[d].pc = "done"
        /\ deliveries[d].sent = << "other" >>
        /\ deliveries[d].errChan.buf = << "other" >>
        /\ deliveries[d].got = <<>>
        /\ Closed(deliveries[d])

\* C32: every delivery comes to its first push attempt, also when ctx was
\* cancelled before the call: a goroutine that has started has made an
\* attempt, and one that gave up on the cancellation did so in the select,
\* after an attempt that failed with a status error and a Next call.
C32_FirstAttemptAlways ==
    /\ [](\A d \in Ids :
            LET D == deliveries[d]
            IN  /\ D.pc # "go" => D.attempts >= 1
                /\ D.pc = "go" => D.attempts = 0
                /\ D.pc = "cancelled" =>
                      /\ D.ctxDone
                      /\ D.fails >= 1 /\ D.nexts >= 1
                      /\ D.attempts = D.fails
                      /\ IsPushStatusError(D.err))
    /\ \A d \in 1 .. MaxDeliveries :
          (d \in Ids) ~> (d \in Ids /\ deliveries[d].attempts >= 1)

\* A delivery whose ctx was cancelled before the call made its attempt, which
\* succeeded, and ended with the channel closed.
C32_Witness ==
    \E d \in Ids :
        /\ deliveries[d].cancelAt = "call"
        /\ deliveries[d].attempts = 1
        /\ deliveries[d].err = "nil"
        /\ deliveries[d].pc = "done"

\* The chain of err, the tree of what it wraps or joins, has a *PushStatusError.
RECURSIVE ChainHasPushStatusError(_)
ChainHasPushStatusError(err) ==
    \/ err.kind = "PushStatusError"
    \/ err.kind = "wrap" /\ ChainHasPushStatusError(err.err)
    \/ err.kind = "join" /\ \E i \in 1 .. Len(err.errs) : ChainHasPushStatusError(err.errs[i])

\* errors.Is(err, &PushStatusError{}) holds exactly for the errors with a
\* *PushStatusError in their chain, which for the errors LokiClient.Push returns
\* is what MatchesPushStatusError says.
TransientIffInChain ==
    \A n \in DOMAIN isCalls :
        LET call == isCalls[n]
        IN  (call.fn = "errors.Is" /\ call.target = Fresh) =>
                /\ call.result <=> ChainHasPushStatusError(call.err)
                /\ call.err.kind # "wrap" =>
                      (call.result <=> MatchesPushStatusError(call.err))

\* C33 as stated: e.Is(target) is true exactly when target is a *PushStatusError
\* that is not nil, whatever the fields of e and of target; and
\* errors.Is(err, &PushStatusError{}) is true exactly for the errors whose chain
\* has a *PushStatusError.
C33_IsNonNilPointer ==
    /\ \A n \in DOMAIN isCalls :
          LET call == isCalls[n]
          IN  call.fn = "Is" =>
                  (call.result <=> /\ call.target.kind = "PushStatusError"
                                   /\ ~IsNilPointer(call.target))
    /\ TransientIffInChain

\* C33, amended: e.Is(target) is true exactly when target is not the nil error
\* and its dynamic type is *PushStatusError, a nil pointer of that type
\* included, whatever the fields of e and of target; and the same about
\* errors.Is.
C33_IsByDynamicType ==
    /\ \A n \in DOMAIN isCalls :
          LET call == isCalls[n]
          IN  call.fn = "Is" =>
                  (call.result <=> /\ call.target # NilError
                                   /\ call.target.kind = "PushStatusError")
    /\ TransientIffInChain

\* The 500 error was asked about the 404 error, and errors.Is about the join
\* of a status error with the error of reading the body: both true.
C33_Witness ==
    /\ Len(isCalls) = 2
    /\ isCalls[1] = [fn |-> "Is", err |-> P500, target |-> P404, result |-> TRUE]
    /\ isCalls[2] = [fn |-> "errors.Is", err |-> JoinedRead, target |-> Fresh,
                      result |-> TRUE]

\* Number of streams of entry the server holds.
CountOf(entry) == Cardinality({i \in DOMAIN server.streams : server.streams[i] = entry})

\* The positions in the lock order whose request has been answered.
Answered == {i \in DOMAIN server.order : server.requests[server.order[i]].pc \in {"unlock", "done"}}

\* The requests rejected by the sendError counter.
Counted == {r \in DOMAIN server.requests : server.requests[r].counted}

Min(a, b) == IF a < b THEN a ELSE b

\* What the requests at the first k positions of the lock order have stored.
RECURSIVE StoredBy(_)
StoredBy(k) ==
    IF k = 0 THEN << >>
    ELSE LET q == server.requests[server.order[k]]
         IN  StoredBy(k - 1) \o (IF k \in Answered /\ q.status = 204
                                 THEN StreamsOf(q.entry, q.n) ELSE << >>)

\* C35 as stated: of the POST requests to the push path, in the order they take
\* the lock, exactly the first N are answered with status 500, and nothing of
\* them is stored; the streams of every later well-formed one are stored; the
\* counter never goes below zero and the rejected requests are
\* min(N, requests) in number.
C35_FirstNRejected ==
    /\ \A i \in Answered :
          LET q == server.requests[server.order[i]]
          IN  /\ q.status = 500 <=> i <= server.n
              /\ i <= server.n => CountOf(q.entry) = 0
              /\ (i > server.n /\ q.wellFormed) => CountOf(q.entry) = q.n
    /\ server.sendError >= 0
    /\ Cardinality({r \in DOMAIN server.requests : server.requests[r].status = 500})
          = Min(server.n, Cardinality(Answered))

\* C35, amended: the counter rejects with status 500 exactly the first N POST
\* requests to the push path in the order they take the lock, and nothing of
\* them is stored; of the later ones the well-formed are answered 204 and their
\* streams stored, in that order, and the malformed are answered 500 as well;
\* other paths and methods get 404 and 405 without taking the lock; one request
\* at a time is between Lock and Unlock; the counter is N less the requests it
\* rejected, never below zero, and those are min(N, requests answered) in number.
C35_CounterRejectsFirstN ==
    /\ \A i \in Answered :
          LET q == server.requests[server.order[i]]
          IN  /\ q.counted <=> i <= server.n
              /\ q.counted => (q.status = 500 /\ CountOf(q.entry) = 0)
              /\ (i > server.n /\ q.wellFormed) => (q.status = 204 /\ CountOf(q.entry) = q.n)
              /\ (i > server.n /\ ~q.wellFormed) => (q.status = 500 /\ CountOf(q.entry) = 0)
    /\ \A r \in DOMAIN server.requests :
          LET q == server.requests[r]
          IN  /\ q.pc \in {"check", "decrement", "read", "unlock"} => server.lock = r
              /\ (q.path # PushPath \/ q.method # "POST") =>
                    /\ \A i \in DOMAIN server.order : server.order[i] # r
                    /\ CountOf(q.entry) = 0
                    /\ q.pc = "done" => q.status = (IF q.path # PushPath THEN 404 ELSE 405)
    /\ server.streams = StoredBy(Len(server.order))
    /\ server.sendError >= 0
    /\ server.sendError = server.n - Cardinality(Counted)
    /\ Cardinality(Counted) = Min(server.n, Cardinality(Answered))

\* A server created with sendError = 2 answered three posts that took the lock
\* in another order than they arrived in: the first two with 500, the third,
\* the request that arrived first, with 204.
C35_Witness ==
    /\ server.n = 2
    /\ Len(server.order) = 3
    /\ server.order[3] = 1
    /\ \A r \in 1 .. 3 : server.requests[r].pc = "done"
    /\ server.requests[1].status = 204
    /\ server.sendError = 0
    /\ server.streams # << >>

\* The requests delivery d has sent.
RequestsOf(d) == {r \in DOMAIN server.requests : server.requests[r].from = d}

\* C34: once the channel of a PushWithHandle delivery is closed and no error
\* was sent on it, the server holds exactly one stream of the entry; every
\* attempt sent one request, the last of them was answered 204 and stored the
\* stream, every earlier one was rejected with 500 and stored nothing, and no
\* request follows.
C34_StoredExactlyOnce ==
    \A d \in Ids :
        LET D == deliveries[d]
        IN  (Closed(D) /\ D.sent = << >>) =>
                /\ CountOf(<<"delivery", d>>) = 1
                /\ Cardinality(RequestsOf(d)) = D.attempts
                /\ D.fails = D.attempts - 1
                /\ \A r \in RequestsOf(d) :
                      LET q == server.requests[r]
                      IN  /\ q.pc = "done"
                          /\ q.attempt \in 1 .. D.attempts
                          /\ q.attempt = D.attempts => (q.status = 204 /\ ~q.counted)
                          /\ q.attempt < D.attempts => (q.status = 500 /\ q.counted)
                /\ \A r, s \in RequestsOf(d) :
                      server.requests[r].attempt = server.requests[s].attempt => r = s

\* A delivery to a server created with sendError = 2 was rejected twice, got
\* through at the third attempt, and its caller saw the channel closed without
\* an error.
C34_Witness ==
    /\ server.n = 2
    /\ \E d \in Ids :
          /\ deliveries[d].sawClose
          /\ deliveries[d].got = << >>
          /\ deliveries[d].attempts = 3
          /\ deliveries[d].fails = 2
          /\ CountOf(<<"delivery", d>>) = 1

NewLine(c) == c = "\n" \/ c = "\r"

\* line is message without the line feeds and carriage returns at its end.
IsStripped(line, message) ==
    \E k \in 0 .. Len(message) :
        /\ line = SubSeq(message, 1, k)
        /\ k > 0 => ~NewLine(message[k])
        /\ \A j \in k + 1 .. Len(message) : NewLine(message[j])

\* C36: every Write hands the client one entry whose line is the message
\* without its trailing line feeds and carriage returns, those inside kept,
\* and whose labels are the preformatted labels of the writer; it returns the
\* length of the message as given and nil when the push succeeded, and 0 and
\* the error of the push when it failed.
C36_WriteStripsAndReports ==
    /\ Len(writer.pushed) = Len(writer.calls)
    /\ writer.preformattedLabels = labelsToString(writer.labels)
    /\ \A i \in DOMAIN writer.calls :
          LET call == writer.calls[i]
          IN  /\ writer.pushed[i] = call.entry
              /\ IsStripped(call.entry.Line, call.message)
              /\ call.entry.Labels = writer.preformattedLabels
              /\ call.err = "nil" => call.n = Len(call.message)
              /\ call.err # "nil" => call.n = 0

\* A message with a line feed inside and two line endings after it was written
\* by a writer with labels, and the push succeeded.
C36_Witness ==
    /\ writer.labels # << >>
    /\ Len(writer.calls) = 1
    /\ writer.calls[1].message = << "\n", "a", "\r" >>
    /\ writer.calls[1].entry.Line = << "\n", "a" >>
    /\ writer.calls[1].entry.Labels = << "{", "app", "=", "\"", "demo", "\"", ", ", "env", "=", "\"", "dev", "\"", "}" >>
    /\ writer.calls[1].n = 3
    /\ writer.calls[1].err = "nil"

\* The handlers of the derived JoinedHandler e are those of the receiver,
\* derived, in the receiver's order.
SameOrder(e) ==
    /\ Len(e.handler.handlers) = Len(e.from.handlers)
    /\ \A k \in DOMAIN e.from.handlers :
          e.handler.handlers[k] = DeriveHandler(e.from.handlers[k], e.by, e.arg)

\* C37 as stated: the JoinedHandler that WithAttrs or WithGroup returns wraps
\* the derived handlers in the receiver's order and has the receiver's
\* concurrency setting, and the call leaves the receiver's handlers and
\* concurrency setting as they were.
C37_DerivedKeepsConcurrency ==
    /\ [](\A i \in DOMAIN derived :
            /\ SameOrder(derived[i])
            /\ derived[i].handler.concurrent = derived[i].from.concurrent)
    /\ [][derived' # derived =>
            /\ joined'.handlers = joined.handlers
            /\ joined'.concurrent = joined.concurrent]_vars

====
